---- MODULE Spec2Model ----
(***************************************************************************)
(* DocuDiff: the semantic (LLM-mediated) comparator of                     *)
(* src/llm_comparator.py with its chunker, and the lexical comparator of   *)
(* src/comparator.py with its normalizer and line diff.                    *)
(*                                                                         *)
(* Text is a sequence of one-character strings, so that len(), strip(),    *)
(* re.split and "".join are computed as Python computes them.  Python's    *)
(* None is the empty tuple <<>> and a set Optional value x is <<x>>.       *)
(***************************************************************************)
EXTENDS Integers, Sequences, FiniteSets, TLC

(***************************************************************************)
(* Bounds of the model.                                                    *)
(***************************************************************************)
\* the longest chunk list of one document
MaxChunks == 3
\* the longest line list handed to the lexical line diff
MaxLines == 3

MaxRaw == 4

MaxWords == 3

(***************************************************************************)
(* Python built-ins on text and lists.                                     *)
(***************************************************************************)
None == <<>>
Some(x) == <<x>>

Max(x, y) == IF x >= y THEN x ELSE y

\* list[lo:hi] with 0-based half-open bounds, lo <= hi <= len(list)
Slice(s, lo, hi) == [k \in 1..(hi - lo) |-> s[lo + k]]

\* the characters \s of the regular expressions and of str.strip()
IsSpace(c) == c \in {" ", "\n", "\t", "\r", "\f"}

RECURSIVE LStrip(_)
LStrip(s) ==
    IF s # <<>> /\ IsSpace(Head(s)) THEN LStrip(Tail(s)) ELSE s

RECURSIVE RStrip(_)
RStrip(s) ==
    IF s # <<>> /\ IsSpace(s[Len(s)]) THEN RStrip(SubSeq(s, 1, Len(s) - 1)) ELSE s

\* str.strip()
Strip(s) == RStrip(LStrip(s))

\* "".join(list of strings)
RECURSIVE Join(_)
Join(parts) ==
    IF parts = <<>> THEN <<>> ELSE Head(parts) \o Join(Tail(parts))

\* [w for w in re.split(r'(\s+)', text) if w]: the maximal runs of
\* whitespace and of non-whitespace, in order
RECURSIVE SplitWords(_, _, _)
SplitWords(text, k, cur) ==
    IF k > Len(text)
    THEN (IF cur = <<>> THEN <<>> ELSE <<cur>>)
    ELSE IF cur = <<>> \/ IsSpace(cur[1]) = IsSpace(text[k])
         THEN SplitWords(text, k + 1, Append(cur, text[k]))
         ELSE <<cur>> \o SplitWords(text, k + 1, <<text[k]>>)

\* mutant: the whitespace between the words is dropped (re.split without
\* the capturing group)
Words_NoSeparators(text) ==
    SelectSeq(SplitWords(text, 1, <<>>), LAMBDA w : ~IsSpace(w[1]))

Words(text) == SplitWords(text, 1, <<>>)

(***************************************************************************)
(* difflib.SequenceMatcher(None, a, b, autojunk=False): no element is      *)
(* junk.  Indices are Python's (0-based, half-open spans).                 *)
(***************************************************************************)
\* j2len: the length of the common run of a and b that ends at a[i], b[j]
\* and lies inside a[alo:], b[blo:]
RECURSIVE RunLen(_, _, _, _, _, _)
RunLen(a, b, i, j, alo, blo) ==
    IF i < alo \/ j < blo THEN 0
    ELSE IF a[i + 1] # b[j + 1] THEN 0
    ELSE 1 + RunLen(a, b, i - 1, j - 1, alo, blo)

\* find_longest_match: the longest matching block of a[alo:ahi] and
\* b[blo:bhi]; of the longest ones the one starting earliest in a, and of
\* those the one starting earliest in b.  <<alo, blo, 0>> when nothing
\* matches.
FindLongestMatch(a, b, alo, ahi, blo, bhi) ==
    LET ends == {ij \in (alo..(ahi - 1)) \X (blo..(bhi - 1)) :
                    a[ij[1] + 1] = b[ij[2] + 1]}
        len(ij) == RunLen(a, b, ij[1], ij[2], alo, blo)
    IN  IF ends = {} THEN <<alo, blo, 0>>
        ELSE LET bestsize == CHOOSE k \in {len(ij) : ij \in ends} :
                                 \A ij \in ends : len(ij) <= k
                 longest == {ij \in ends : len(ij) = bestsize}
                 besti == CHOOSE i \in {ij[1] : ij \in longest} :
                              \A ij \in longest : i <= ij[1]
                 first == {ij \in longest : ij[1] = besti}
                 bestj == CHOOSE j \in {ij[2] : ij \in first} :
                              \A ij \in first : j <= ij[2]
             IN  <<besti - bestsize + 1, bestj - bestsize + 1, bestsize>>

\* get_matching_blocks without its sentinel: the longest match, then the
\* matches to its left and to its right, sorted by position
RECURSIVE MatchingBlocks(_, _, _, _, _, _)
MatchingBlocks(a, b, alo, ahi, blo, bhi) ==
    LET m == FindLongestMatch(a, b, alo, ahi, blo, bhi)
        i == m[1]
        j == m[2]
        k == m[3]
    IN  IF k = 0 THEN <<>>
        ELSE (IF alo < i /\ blo < j
              THEN MatchingBlocks(a, b, alo, i, blo, j) ELSE <<>>)
             \o <<m>>
             \o (IF i + k < ahi /\ j + k < bhi
                 THEN MatchingBlocks(a, b, i + k, ahi, j + k, bhi) ELSE <<>>)

\* get_matching_blocks collapses adjacent blocks into one
RECURSIVE CollapseBlocks(_)
CollapseBlocks(blocks) ==
    IF Len(blocks) < 2 THEN blocks
    ELSE LET x == blocks[1]
             y == blocks[2]
         IN  IF x[1] + x[3] = y[1] /\ x[2] + x[3] = y[2]
             THEN CollapseBlocks(<<<<x[1], x[2], x[3] + y[3]>>>>
                                 \o SubSeq(blocks, 3, Len(blocks)))
             ELSE <<x>> \o CollapseBlocks(Tail(blocks))

\* mutant: the position is not moved past the matching block
RECURSIVE OpcodesFrom_NoAdvance(_, _, _)
OpcodesFrom_NoAdvance(blocks, i, j) ==
    IF blocks = <<>> THEN <<>>
    ELSE LET ai == blocks[1][1]
             bj == blocks[1][2]
             size == blocks[1][3]
             tag == IF i < ai /\ j < bj THEN "replace"
                    ELSE IF i < ai THEN "delete"
                    ELSE IF j < bj THEN "insert"
                    ELSE ""
             gap == IF tag = "" THEN <<>>
                    ELSE <<[tag |-> tag, i1 |-> i, i2 |-> ai, j1 |-> j, j2 |-> bj]>>
             eq == IF size = 0 THEN <<>>
                   ELSE <<[tag |-> "equal", i1 |-> ai, i2 |-> ai + size,
                           j1 |-> bj, j2 |-> bj + size]>>
         IN  gap \o eq \o OpcodesFrom_NoAdvance(Tail(blocks), ai, bj)

\* get_opcodes: one opcode [tag, i1, i2, j1, j2] for the gap before each
\* matching block (the sentinel <<len(a), len(b), 0>> closes the list) and
\* one 'equal' opcode for each non-empty block
RECURSIVE OpcodesFrom(_, _, _)
OpcodesFrom(blocks, i, j) ==
    IF blocks = <<>> THEN <<>>
    ELSE LET ai == blocks[1][1]
             bj == blocks[1][2]
             size == blocks[1][3]
             tag == IF i < ai /\ j < bj THEN "replace"
                    ELSE IF i < ai THEN "delete"
                    ELSE IF j < bj THEN "insert"
                    ELSE ""
             gap == IF tag = "" THEN <<>>
                    ELSE <<[tag |-> tag, i1 |-> i, i2 |-> ai, j1 |-> j, j2 |-> bj]>>
             eq == IF size = 0 THEN <<>>
                   ELSE <<[tag |-> "equal", i1 |-> ai, i2 |-> ai + size,
                           j1 |-> bj, j2 |-> bj + size]>>
         IN  gap \o eq \o OpcodesFrom(Tail(blocks), ai + size, bj + size)

GetOpcodes(a, b) ==
    OpcodesFrom(
        Append(CollapseBlocks(MatchingBlocks(a, b, 0, Len(a), 0, Len(b))),
               <<Len(a), Len(b), 0>>),
        0, 0)

(***************************************************************************)
(* The oracle (Groq chat completion) and the validation of its answer,     *)
(* GroqPDFComparator._call_groq_change_blocks.                             *)
(*                                                                         *)
(* An answer is either an exception raised by the client or by reading the *)
(* completion, or the response text: invalid JSON, or a JSON document.     *)
(* A JSON value is [type, val]; item.get(key) of a missing key is the same *)
(* None as a JSON null.                                                    *)
(***************************************************************************)
Str(t) == [type |-> "string", val |-> t]
Null == [type |-> "null", val |-> <<>>]
Num == [type |-> "number", val |-> <<>>]

\* a JSON object with the three keys a block is read by
Obj(status, text1, text2) ==
    [is_dict |-> TRUE, status |-> status, text1 |-> text1, text2 |-> text2]
\* a JSON value that is not an object
NotObj == [is_dict |-> FALSE, status |-> "", text1 |-> Null, text2 |-> Null]

\* {"change_blocks": [items]}
Blocks(items) == [kind |-> "json", has_key |-> TRUE, is_list |-> TRUE, items |-> items]
Raised(kind) == [kind |-> kind, has_key |-> FALSE, is_list |-> FALSE, items |-> <<>>]

valid_statuses == {"equal", "added", "deleted", "modified"}

\* item.get(key, "") or ""
TextOr(v) == IF v.type = "string" THEN v.val ELSE <<>>

\* mutant: the text fields are kept as the oracle gave them
ValidatedBlock_Uncorrected(item) ==
    [status |-> item.status, text1 |-> TextOr(item.text1), text2 |-> TextOr(item.text2)]

\* the body of the validation loop for one item that passed the checks
ValidatedBlock(item) ==
    LET text1 == TextOr(item.text1)
        text2 == TextOr(item.text2)
    IN  [status |-> item.status,
         text1 |-> IF item.status = "added" THEN <<>> ELSE text1,
         text2 |-> IF item.status = "deleted" THEN <<>> ELSE text2]

\* mutant: a block whose texts do not fit its status is rejected
BlockError_Strict(item) ==
    IF ~item.is_dict THEN "Block is not a JSON object."
    ELSE IF item.status \notin valid_statuses THEN "Block has invalid status."
    ELSE IF item.text1.type \notin {"null", "string"} THEN "Block 'text1' is not a string."
    ELSE IF item.text2.type \notin {"null", "string"} THEN "Block 'text2' is not a string."
    ELSE IF item.status = "modified" /\ (TextOr(item.text1) = <<>> \/ TextOr(item.text2) = <<>>)
    THEN "Block has invalid status."
    ELSE ""

\* mutant: the status of a block is not checked
BlockError_AnyStatus(item) ==
    IF ~item.is_dict THEN "Block is not a JSON object."
    ELSE IF item.text1.type \notin {"null", "string"} THEN "Block 'text1' is not a string."
    ELSE IF item.text2.type \notin {"null", "string"} THEN "Block 'text2' is not a string."
    ELSE ""

\* the ValueError the validation loop raises for an item, "" when none
BlockError(item) ==
    IF ~item.is_dict THEN "Block is not a JSON object."
    ELSE IF item.status \notin valid_statuses THEN "Block has invalid status."
    ELSE IF item.text1.type \notin {"null", "string"} THEN "Block 'text1' is not a string."
    ELSE IF item.text2.type \notin {"null", "string"} THEN "Block 'text2' is not a string."
    ELSE ""

\* the validation loop: the validated blocks, or the first ValueError
RECURSIVE ValidateBlocks(_, _)
ValidateBlocks(items, validated_blocks) ==
    IF items = <<>> THEN [error |-> "", blocks |-> validated_blocks]
    ELSE IF BlockError(Head(items)) # ""
         THEN [error |-> BlockError(Head(items)), blocks |-> <<>>]
         ELSE ValidateBlocks(Tail(items),
                             Append(validated_blocks, ValidatedBlock(Head(items))))

\* the ValueError raised after json.loads succeeded, "" when none
ResponseError(answer) ==
    IF ~answer.has_key THEN "LLM response missing 'change_blocks' key in the root JSON object."
    ELSE IF ~answer.is_list THEN "'change_blocks' value is not a JSON array."
    ELSE ValidateBlocks(answer.items, <<>>).error

\* _call_groq_change_blocks on the oracle's answer: the returned value
\* (None or the validated list), the error message it leaves and the
\* entries it appends to debug_logs
CallGroqChangeBlocks(answer) ==
    CASE answer.kind = "RateLimitError" ->
            [result |-> None, error_message |-> Some("API Rate Limit Error"),
             logs |-> <<"ERROR: RateLimitError">>]
      [] answer.kind = "BadRequestError" ->
            [result |-> None, error_message |-> Some("API Bad Request Error"),
             logs |-> <<"ERROR: BadRequestError">>]
      [] answer.kind = "APIError" ->
            [result |-> None, error_message |-> Some("Groq API Error"),
             logs |-> <<"ERROR: APIError">>]
      [] answer.kind = "Exception" ->
            [result |-> None, error_message |-> Some("Unexpected Error during API Call"),
             logs |-> <<"ERROR: Exception">>]
      [] answer.kind = "InvalidJSON" ->
            [result |-> None,
             error_message |-> Some("LLM Response Validation Error: LLM returned invalid JSON"),
             logs |-> <<"ERROR: Invalid JSON received", "ERROR: ValueError">>]
      [] answer.kind = "json" ->
            IF ResponseError(answer) # ""
            THEN [result |-> None,
                  error_message |-> Some("LLM Response Validation Error: "
                                         \o ResponseError(answer)),
                  logs |-> <<"Success", "ERROR: ValueError">>]
            ELSE [result |-> Some(ValidateBlocks(answer.items, <<>>).blocks),
                  error_message |-> None,
                  logs |-> <<"Success">>]

(***************************************************************************)
(* GroqPDFComparator._calculate_summary.                                   *)
(***************************************************************************)
default_summary ==
    [added_chars |-> 0, deleted_chars |-> 0, modified_blocks |-> 0, modified_chars |-> 0]

\* mutant: a replaced run counts its new side only
RECURSIVE ModNet_ReplaceAddsOnly(_, _, _, _)
ModNet_ReplaceAddsOnly(opcodes, words1, words2, net) ==
    IF opcodes = <<>> THEN net
    ELSE LET op == Head(opcodes)
             seg1 == Join(Slice(words1, op.i1, op.i2))
             seg2 == Join(Slice(words2, op.j1, op.j2))
             next == CASE op.tag = "insert" ->
                            [net EXCEPT !.added = @ + Len(seg2)]
                       [] op.tag = "delete" ->
                            [net EXCEPT !.deleted = @ + Len(seg1)]
                       [] op.tag = "replace" ->
                            [net EXCEPT !.added = @ + Len(seg2)]
                       [] OTHER -> net
         IN  ModNet_ReplaceAddsOnly(Tail(opcodes), words1, words2, next)

\* the loop over the opcodes of one modified block: mod_added_net and
\* mod_deleted_net
RECURSIVE ModNet(_, _, _, _)
ModNet(opcodes, words1, words2, net) ==
    IF opcodes = <<>> THEN net
    ELSE LET op == Head(opcodes)
             seg1 == Join(Slice(words1, op.i1, op.i2))
             seg2 == Join(Slice(words2, op.j1, op.j2))
             next == CASE op.tag = "insert" ->
                            [net EXCEPT !.added = @ + Len(seg2)]
                       [] op.tag = "delete" ->
                            [net EXCEPT !.deleted = @ + Len(seg1)]
                       [] op.tag = "replace" ->
                            [net EXCEPT !.deleted = @ + Len(seg1),
                                        !.added = @ + Len(seg2)]
                       [] OTHER -> net
         IN  ModNet(Tail(opcodes), words1, words2, next)

\* one pass of the loop over all_change_blocks
SummaryStep(acc, block) ==
    CASE block.status = "added" ->
            [acc EXCEPT !.added_chars = @ + Len(block.text2)]
      [] block.status = "deleted" ->
            [acc EXCEPT !.deleted_chars = @ + Len(block.text1)]
      [] block.status = "modified" ->
            LET words1 == Words(block.text1)
                words2 == Words(block.text2)
                net == ModNet(GetOpcodes(words1, words2), words1, words2,
                              [added |-> 0, deleted |-> 0])
            IN  [added_chars |-> acc.added_chars + net.added,
                 deleted_chars |-> acc.deleted_chars + net.deleted,
                 modified_blocks |-> acc.modified_blocks + 1,
                 modified_chars |-> acc.modified_chars + Len(block.text2)]
      [] OTHER -> acc

RECURSIVE SummaryLoop(_, _)
SummaryLoop(blocks, acc) ==
    IF blocks = <<>> THEN acc
    ELSE SummaryLoop(Tail(blocks), SummaryStep(acc, Head(blocks)))

CalculateSummary(blocks) ==
    IF blocks = <<>> THEN default_summary ELSE SummaryLoop(blocks, default_summary)

(***************************************************************************)
(* Rendering of the semantic diff.  Markup is a sequence of pieces: a      *)
(* piece [cls, body] is <span class='llm-word cls'>body</span>, or the     *)
(* bare body when cls is "".  A body is escaped text: characters, with     *)
(* the element "<br>" for the line-break tag str.replace puts in.          *)
(***************************************************************************)
\* mutant: the quotes are not escaped (html.escape with quote=False)
RECURSIVE HtmlEscape_NoQuotes(_)
HtmlEscape_NoQuotes(text) ==
    IF text = <<>> THEN <<>>
    ELSE (CASE Head(text) = "&" -> <<"&", "a", "m", "p", ";">>
            [] Head(text) = "<" -> <<"&", "l", "t", ";">>
            [] Head(text) = ">" -> <<"&", "g", "t", ";">>
            [] OTHER -> <<Head(text)>>)
         \o HtmlEscape_NoQuotes(Tail(text))

\* html.escape(text) (quote=True)
RECURSIVE HtmlEscape(_)
HtmlEscape(text) ==
    IF text = <<>> THEN <<>>
    ELSE (CASE Head(text) = "&" -> <<"&", "a", "m", "p", ";">>
            [] Head(text) = "<" -> <<"&", "l", "t", ";">>
            [] Head(text) = ">" -> <<"&", "g", "t", ";">>
            [] Head(text) = "\"" -> <<"&", "q", "u", "o", "t", ";">>
            [] Head(text) = "'" -> <<"&", "#", "x", "2", "7", ";">>
            [] OTHER -> <<Head(text)>>)
         \o HtmlEscape(Tail(text))

\* text.replace('\n', '<br>\n')
RECURSIVE BrNewlines(_)
BrNewlines(text) ==
    IF text = <<>> THEN <<>>
    ELSE (IF Head(text) = "\n" THEN <<"<br>", "\n">> ELSE <<Head(text)>>)
         \o BrNewlines(Tail(text))

Span(cls, body) == [cls |-> cls, body |-> body]
Bare(body) == [cls |-> "", body |-> body]

\* mutant: a replaced span is rendered as a deleted segment followed by an
\* added one
RenderWordOpcode_RemovedAdded(op, words1, words2) ==
    LET escaped1 == BrNewlines(HtmlEscape(Join(Slice(words1, op.i1, op.i2))))
        escaped2 == BrNewlines(HtmlEscape(Join(Slice(words2, op.j1, op.j2))))
        br == <<"<br>", "\n">>
        bare(body) == IF body = <<>> THEN <<>> ELSE <<Bare(body)>>
    IN  CASE op.tag = "equal" -> <<Span("status-equal", escaped2)>>
          [] op.tag = "delete" ->
                IF Strip(escaped1) # <<>> /\ escaped1 # br
                THEN <<Span("status-deleted", escaped1)>>
                ELSE bare(escaped1)
          [] op.tag = "insert" ->
                IF Strip(escaped2) # <<>> /\ escaped2 # br
                THEN <<Span("status-added", escaped2)>>
                ELSE bare(escaped2)
          [] op.tag = "replace" ->
                (IF Strip(escaped1) # <<>>
                 THEN <<Span("status-deleted", escaped1)>> ELSE bare(escaped1))
                \o (IF Strip(escaped2) # <<>>
                    THEN <<Span("status-added", escaped2)>> ELSE bare(escaped2))

\* the pieces one opcode of _render_word_diff_html adds to
\* modified_content_html (adding the empty string adds nothing)
RenderWordOpcode(op, words1, words2) ==
    LET escaped1 == BrNewlines(HtmlEscape(Join(Slice(words1, op.i1, op.i2))))
        escaped2 == BrNewlines(HtmlEscape(Join(Slice(words2, op.j1, op.j2))))
        br == <<"<br>", "\n">>
        bare(body) == IF body = <<>> THEN <<>> ELSE <<Bare(body)>>
    IN  CASE op.tag = "equal" -> <<Span("status-equal", escaped2)>>
          [] op.tag = "delete" ->
                IF Strip(escaped1) # <<>> /\ escaped1 # br
                THEN <<Span("status-deleted", escaped1)>>
                ELSE bare(escaped1)
          [] op.tag = "insert" ->
                IF Strip(escaped2) # <<>> /\ escaped2 # br
                THEN <<Span("status-added", escaped2)>>
                ELSE bare(escaped2)
          [] op.tag = "replace" ->
                IF Strip(escaped2) # <<>> /\ escaped2 # br
                THEN <<Span("status-modified", escaped2)>>
                ELSE IF Strip(escaped1) = <<>> /\ escaped2 # <<>>
                THEN bare(escaped2)
                ELSE IF Strip(escaped1) # <<>> /\ Strip(escaped2) = <<>>
                THEN <<Span("status-deleted", escaped1)>>
                ELSE IF escaped1 # <<>> /\ escaped2 # <<>>
                THEN bare(escaped2)
                ELSE <<>>

RECURSIVE RenderWordOpcodes(_, _, _)
RenderWordOpcodes(opcodes, words1, words2) ==
    IF opcodes = <<>> THEN <<>>
    ELSE RenderWordOpcode(Head(opcodes), words1, words2)
         \o RenderWordOpcodes(Tail(opcodes), words1, words2)

\* GroqPDFComparator._render_word_diff_html
RenderWordDiffHtml(text1, text2) ==
    RenderWordOpcodes(GetOpcodes(Words(text1), Words(text2)), Words(text1), Words(text2))

\* the block_html of one block
RenderBlock(block) ==
    CASE block.status = "equal" ->
            IF block.text2 # <<>>
            THEN <<Span("status-equal", BrNewlines(HtmlEscape(block.text2)))>> ELSE <<>>
      [] block.status = "deleted" ->
            IF block.text1 # <<>>
            THEN <<Span("status-deleted", BrNewlines(HtmlEscape(block.text1)))>> ELSE <<>>
      [] block.status = "added" ->
            IF block.text2 # <<>>
            THEN <<Span("status-added", BrNewlines(HtmlEscape(block.text2)))>> ELSE <<>>
      [] block.status = "modified" -> RenderWordDiffHtml(block.text1, block.text2)
      [] OTHER -> <<>>

RECURSIVE RenderBlocks(_)
RenderBlocks(blocks) ==
    IF blocks = <<>> THEN <<>>
    ELSE RenderBlock(Head(blocks)) \o RenderBlocks(Tail(blocks))

\* GroqPDFComparator._render_change_blocks_html: the pieces inside
\* <div class='diff-llm-container-inner'>
RenderChangeBlocksHtml(blocks) ==
    [container |-> "diff-llm-container-inner", pieces |-> RenderBlocks(blocks)]

(***************************************************************************)
(* The inputs of one semantic comparison.                                  *)
(*                                                                         *)
(* An uploaded file is what utils.extract_text_from_file returns for it    *)
(* (a stripped text or an error, never both) together with the chunk list  *)
(* _chunk_text_by_tokens returns for that text: the tokenizer is external, *)
(* so the chunk boundaries are an input.  The chunker drops blank chunks   *)
(* and returns no chunk exactly for a blank text.                          *)
(***************************************************************************)
ChunkTexts == {<<"a">>, <<"a", " ", "b">>}

ChunkLists == UNION {[1..n -> ChunkTexts] : n \in 0..MaxChunks}

\* the separator the chunker joins parts with, and the texts here have
\* between paragraphs
separator == <<"\n", "\n">>

RECURSIVE JoinSep(_, _)
JoinSep(parts, sep) ==
    IF parts = <<>> THEN <<>>
    ELSE IF Len(parts) = 1 THEN parts[1]
    ELSE parts[1] \o sep \o JoinSep(Tail(parts), sep)

TextFiles ==
    {[error |-> None, text |-> Some(JoinSep(cs, separator)), chunks |-> cs] :
        cs \in ChunkLists}

ErrorFiles ==
    {[error |-> Some("Corrupted or invalid PDF."), text |-> None, chunks |-> <<>>]}

Files == TextFiles \cup ErrorFiles

\* utils.extract_text_from_file: (extracted_text, error_message)
ExtractTextFromFile(file) == <<file.text, file.error>>

\* the texts the oracle's blocks carry
TA == <<"a", " ", "b">>
TB == <<"a">>
TC == <<"a", " ", "c">>

\* the answers of the oracle the model draws from: every exception kind,
\* every shape of malformed response, and lists of blocks with consistent
\* and inconsistent fields
FatalAnswers ==
    {Raised("RateLimitError"), Raised("BadRequestError"), Raised("APIError"),
     Raised("Exception"), Raised("InvalidJSON"),
     [kind |-> "json", has_key |-> FALSE, is_list |-> FALSE, items |-> <<>>],
     [kind |-> "json", has_key |-> TRUE, is_list |-> FALSE, items |-> <<>>],
     Blocks(<<NotObj>>),
     Blocks(<<Obj("equal", Str(TB), Str(TB)), NotObj>>),
     Blocks(<<Obj("changed", Str(TA), Str(TB))>>),
     Blocks(<<Obj("added", Null, Str(TB)), Obj("changed", Str(TA), Str(TB))>>),
     Blocks(<<Obj("modified", Num, Str(TB))>>),
     Blocks(<<Obj("deleted", Str(TA), Str(<<>>)), Obj("equal", Str(TA), Num)>>)}

BlockAnswers ==
    {Blocks(<<>>),
     Blocks(<<Obj("modified", Str(TA), Str(TB))>>),
     Blocks(<<Obj("modified", Str(TA), Str(TC))>>),
     Blocks(<<Obj("modified", Str(TA), Null)>>),
     Blocks(<<Obj("equal", Str(TA), Str(TB)), Obj("modified", Str(TB), Str(TA))>>),
     Blocks(<<Obj("deleted", Str(TC), Str(TC)), Obj("added", Str(TB), Str(TA))>>)}

OracleAnswers == FatalAnswers \cup BlockAnswers

(***************************************************************************)
(* GroqPDFComparator._chunk_text_by_tokens.                                *)
(*                                                                         *)
(* tiktoken is not part of the repository.  The tokenizer here gives one   *)
(* token to every character: encode and decode are the identity on the     *)
(* sequence of characters, so the count of a concatenation is the sum of   *)
(* the counts, and the whitespace between two words costs tokens (as       *)
(* cl100k_base charges the space in front of a number).                    *)
(*                                                                         *)
(* The texts the chunker is given are hundreds of characters long, so the  *)
(* operators of this section work on positions (1-based, spans [lo, hi]    *)
(* with both ends included) and recurse over parts and words only.         *)
(***************************************************************************)
\* len(tokenizer.encode(text))
TokenCount(text) == Len(text)

\* tokenizer.decode(tokenizer.encode(word)[:n])
Truncate(word, n) == SubSeq(word, 1, IF n < Len(word) THEN n ELSE Len(word))

\* the last position of the run of whitespace that holds position k
RECURSIVE RunEnd(_, _)
RunEnd(text, k) ==
    IF k < Len(text) /\ IsSpace(text[k + 1]) THEN RunEnd(text, k + 1) ELSE k

\* the maximal runs of whitespace of the text: the matches of \s+
SpaceRuns(text) ==
    {[lo |-> k, hi |-> RunEnd(text, k)] :
        k \in {n \in 1..Len(text) :
                  IsSpace(text[n]) /\ (n = 1 \/ ~IsSpace(text[n - 1]))}}

\* the matches of \n\s*\n: in a run of whitespace with two newlines or
\* more, the span from the first newline to the last
ParagraphBreaks(text) ==
    LET newlines(r) == {k \in r.lo..r.hi : text[k] = "\n"}
        first(r) == CHOOSE k \in newlines(r) : \A m \in newlines(r) : k <= m
        last(r) == CHOOSE k \in newlines(r) : \A m \in newlines(r) : m <= k
    IN  {[lo |-> first(r), hi |-> last(r)] :
            r \in {q \in SpaceRuns(text) : Cardinality(newlines(q)) >= 2}}

\* the matches of (?<=[.!?])\s+
SentenceBreaks(text) ==
    {r \in SpaceRuns(text) : r.lo > 1 /\ text[r.lo - 1] \in {".", "!", "?"}}

\* the separators of str.split('\n')
NewlineBreaks(text) ==
    {[lo |-> k, hi |-> k] : k \in {n \in 1..Len(text) : text[n] = "\n"}}

\* re.split and str.split(sep): the pieces of the text between the spans
RECURSIVE SplitAtFrom(_, _, _)
SplitAtFrom(text, breaks, from) ==
    IF breaks = {} THEN <<SubSeq(text, from, Len(text))>>
    ELSE LET b == CHOOSE x \in breaks : \A y \in breaks : x.lo <= y.lo
         IN  <<SubSeq(text, from, b.lo - 1)>>
             \o SplitAtFrom(text, breaks \ {b}, b.hi + 1)

SplitAt(text, breaks) == SplitAtFrom(text, breaks, 1)

\* str.split(): the pieces between the runs of whitespace, none empty
SplitWhitespace(text) ==
    SelectSeq(SplitAt(text, SpaceRuns(text)), LAMBDA piece : piece # <<>>)

\* lines 70-76: paragraphs, else sentences, else lines, else words
Parts(text) ==
    LET t == Strip(text)
        paragraphs == SplitAt(t, ParagraphBreaks(t))
        sentences == SplitAt(t, SentenceBreaks(t))
        lines == SplitAt(t, NewlineBreaks(t))
    IN  IF Len(paragraphs) > 1 THEN paragraphs
        ELSE IF Len(sentences) > 1 THEN sentences
        ELSE IF Len(lines) > 1 THEN lines
        ELSE SplitWhitespace(t)

\* mutant: the sub-chunk that is full is dropped instead of appended
WordStep_NoFlush(w, word, max_tokens) ==
    LET word_prefix == IF w.sub_chunk # <<>> THEN separator ELSE <<>>
        word_token_estimate ==
            TokenCount(word_prefix \o word) - TokenCount(word_prefix)
    IN  IF w.sub_chunk_tokens + word_token_estimate <= max_tokens
        THEN [chunks |-> w.chunks,
              sub_chunk |-> w.sub_chunk
                  \o (IF w.sub_chunk # <<>> THEN <<" ">> ELSE <<>>) \o word,
              sub_chunk_tokens |-> w.sub_chunk_tokens + word_token_estimate]
        ELSE IF TokenCount(word) <= max_tokens
        THEN [chunks |-> w.chunks, sub_chunk |-> word,
              sub_chunk_tokens |-> TokenCount(word)]
        ELSE [chunks |-> Append(w.chunks, Truncate(word, max_tokens)),
              sub_chunk |-> <<>>, sub_chunk_tokens |-> 0]

\* lines 99-118: one word of a part that is over the budget
WordStep(w, word, max_tokens) ==
    LET word_prefix == IF w.sub_chunk # <<>> THEN separator ELSE <<>>
        word_token_estimate ==
            TokenCount(word_prefix \o word) - TokenCount(word_prefix)
        flushed == IF w.sub_chunk # <<>> THEN Append(w.chunks, w.sub_chunk)
                   ELSE w.chunks
    IN  IF w.sub_chunk_tokens + word_token_estimate <= max_tokens
        THEN [chunks |-> w.chunks,
              sub_chunk |-> w.sub_chunk
                  \o (IF w.sub_chunk # <<>> THEN <<" ">> ELSE <<>>) \o word,
              sub_chunk_tokens |-> w.sub_chunk_tokens + word_token_estimate]
        ELSE IF TokenCount(word) <= max_tokens
        THEN [chunks |-> flushed, sub_chunk |-> word,
              sub_chunk_tokens |-> TokenCount(word)]
        ELSE [chunks |-> Append(flushed, Truncate(word, max_tokens)),
              sub_chunk |-> <<>>, sub_chunk_tokens |-> 0]

RECURSIVE WordLoop(_, _, _)
WordLoop(words, w, max_tokens) ==
    IF words = <<>> THEN w
    ELSE WordLoop(Tail(words), WordStep(w, Head(words), max_tokens), max_tokens)

\* lines 85-130: one part; st is [chunks, current_chunk_parts,
\* current_token_count]
PartStep(st, raw_part, max_tokens) ==
    LET part == Strip(raw_part)
        part_tokens == TokenCount(part)
        flushed == IF st.current_chunk_parts # <<>>
                   THEN Append(st.chunks, JoinSep(st.current_chunk_parts, separator))
                   ELSE st.chunks
        w == WordLoop(SplitWhitespace(part),
                      [chunks |-> flushed, sub_chunk |-> <<>>, sub_chunk_tokens |-> 0],
                      max_tokens)
        potential_tokens ==
            st.current_token_count
            + (IF st.current_chunk_parts # <<>> THEN TokenCount(separator) ELSE 0)
            + part_tokens
    IN  IF part = <<>> THEN st
        ELSE IF part_tokens > max_tokens
        THEN [chunks |-> IF w.sub_chunk # <<>> THEN Append(w.chunks, w.sub_chunk)
                         ELSE w.chunks,
              current_chunk_parts |-> <<>>,
              current_token_count |-> IF st.current_chunk_parts # <<>> THEN 0
                                      ELSE st.current_token_count]
        ELSE IF potential_tokens <= max_tokens
        THEN [chunks |-> st.chunks,
              current_chunk_parts |-> Append(st.current_chunk_parts, part),
              current_token_count |-> potential_tokens]
        ELSE [chunks |-> flushed,
              current_chunk_parts |-> <<part>>,
              current_token_count |-> part_tokens]

RECURSIVE PartLoop(_, _, _)
PartLoop(parts, st, max_tokens) ==
    IF parts = <<>> THEN st
    ELSE PartLoop(Tail(parts), PartStep(st, Head(parts), max_tokens), max_tokens)

\* _chunk_text_by_tokens, with self.max_chunk_tokens as max_tokens
ChunkTextByTokens(text, max_tokens) ==
    IF text = <<>> THEN <<>>
    ELSE LET st == PartLoop(Parts(text),
                            [chunks |-> <<>>, current_chunk_parts |-> <<>>,
                             current_token_count |-> 0],
                            max_tokens)
             chunks == IF st.current_chunk_parts # <<>>
                       THEN Append(st.chunks,
                                   JoinSep(st.current_chunk_parts, separator))
                       ELSE st.chunks
         IN  SelectSeq(chunks, LAMBDA chunk : Strip(chunk) # <<>>)

(***************************************************************************)
(* State.  The fields of the comparator object keep their names; success,  *)
(* error_message, is_identical_raw, text1_raw, text2_raw and summary are   *)
(* fields of both comparator classes.                                      *)
(***************************************************************************)
VARIABLES
    pc,                     \* where compare() stands
    file1, file2,           \* the two uploaded files
    success, error_message, is_identical_raw, text1_raw, text2_raw, summary,
    all_change_blocks, rendered_html, api_call_counter, debug_logs,
    chunks1, chunks2,       \* locals of GroqPDFComparator.compare
    i,                      \* the index of the chunk pair the loop is at
    returned,               \* the value compare() returned, None before
    origin,                 \* history: the pair each block was appended for
    calls,                  \* history: the pairs the oracle was called for
    answer,                 \* history: the oracle's last answer, None before
    failed,                 \* history: the pair whose call returned None
    is_identical, text1_processed_lines, text2_processed_lines, diff_html,
    ignore_case, ignore_punctuation, de_hyphenate,  \* PDFComparator's options
    max_chunk_tokens        \* GroqPDFComparator's token budget

vars ==
    <<pc, file1, file2, success, error_message, is_identical_raw, text1_raw,
      text2_raw, summary, all_change_blocks, rendered_html, api_call_counter,
      debug_logs, chunks1, chunks2, i, returned, origin, calls, answer, failed,
      is_identical, text1_processed_lines, text2_processed_lines, diff_html,
      ignore_case, ignore_punctuation, de_hyphenate, max_chunk_tokens>>

\* the fields __init__ sets from its arguments and compare() never assigns
config_vars == <<ignore_case, ignore_punctuation, de_hyphenate, max_chunk_tokens>>

lexical_vars ==
    <<is_identical, text1_processed_lines, text2_processed_lines, diff_html>>

semantic_vars ==
    <<all_change_blocks, rendered_html, api_call_counter, debug_logs,
      chunks1, chunks2, i, origin, calls, answer, failed>>

(***************************************************************************)
(* GroqPDFComparator.                                                      *)
(***************************************************************************)
\* __init__, line 47: the budget is never below 500 tokens
EffectiveBudget(requested) == Max(requested, 500)

\* __init__: the object before compare() is called
Init ==
    /\ pc = "idle"
    /\ file1 \in Files
    /\ file2 \in Files
    /\ success = FALSE
    /\ error_message = None
    /\ is_identical_raw = FALSE
    /\ text1_raw = None
    /\ text2_raw = None
    /\ all_change_blocks = <<>>
    /\ rendered_html = None
    /\ summary = default_summary
    /\ api_call_counter = 0
    /\ debug_logs = <<>>
    /\ chunks1 = <<>>
    /\ chunks2 = <<>>
    /\ i = 0
    /\ returned = None
    /\ origin = <<>>
    /\ calls = <<>>
    /\ answer = None
    /\ failed = None
    /\ is_identical = FALSE
    /\ text1_processed_lines = None
    /\ text2_processed_lines = None
    /\ diff_html = None
    /\ ignore_case = FALSE
    /\ ignore_punctuation = FALSE
    /\ de_hyphenate = FALSE
    /\ max_chunk_tokens = EffectiveBudget(2000)

\* mutant: the block list of the previous call is kept
Begin_KeepsBlocks ==
    /\ pc = "idle"
    /\ pc' = "extract1"
    /\ success' = FALSE
    /\ error_message' = None
    /\ is_identical_raw' = FALSE
    /\ rendered_html' = None
    /\ summary' = default_summary
    /\ debug_logs' = <<>>
    /\ api_call_counter' = 0
    /\ text1_raw' = None
    /\ text2_raw' = None
    /\ origin' = <<>>
    /\ calls' = <<>>
    /\ answer' = None
    /\ failed' = None
    /\ returned' = None
    /\ UNCHANGED <<file1, file2, chunks1, chunks2, i, all_change_blocks>>
    /\ UNCHANGED lexical_vars
    /\ UNCHANGED config_vars

\* compare(), lines 449-458: every result field is reset
Begin ==
    /\ pc = "idle"
    /\ pc' = "extract1"
    /\ success' = FALSE
    /\ error_message' = None
    /\ is_identical_raw' = FALSE
    /\ all_change_blocks' = <<>>
    /\ rendered_html' = None
    /\ summary' = default_summary
    /\ debug_logs' = <<>>
    /\ api_call_counter' = 0
    /\ text1_raw' = None
    /\ text2_raw' = None
    /\ origin' = <<>>
    /\ calls' = <<>>
    /\ answer' = None
    /\ failed' = None
    /\ returned' = None
    /\ UNCHANGED <<file1, file2, chunks1, chunks2, i>>
    /\ UNCHANGED lexical_vars
    /\ UNCHANGED config_vars

\* compare(), lines 464-467: document 1 is extracted
Extract1 ==
    /\ pc = "extract1"
    /\ LET r == ExtractTextFromFile(file1)
       IN  /\ text1_raw' = r[1]
           /\ IF r[2] # None
              THEN /\ error_message' = Some("Error in Document 1: " \o r[2][1])
                   /\ returned' = Some(FALSE)
                   /\ pc' = "done"
              ELSE /\ pc' = "extract2"
                   /\ UNCHANGED <<error_message, returned>>
    /\ UNCHANGED <<file1, file2, success, is_identical_raw, text2_raw, summary>>
    /\ UNCHANGED semantic_vars
    /\ UNCHANGED lexical_vars
    /\ UNCHANGED config_vars

\* str.strip() of a chunk is empty
Blank(chunk) == Strip(chunk) = <<>>

\* mutant: the raw texts are not compared before they are chunked
Extract2_NoRawCheck ==
    /\ pc = "extract2"
    /\ LET r == ExtractTextFromFile(file2)
           c1 == file1.chunks
           c2 == file2.chunks
           fail(msg) ==
               /\ error_message' = Some(msg)
               /\ returned' = Some(FALSE)
               /\ pc' = "done"
               /\ UNCHANGED <<success, is_identical_raw, chunks1, chunks2>>
           succeed(identical) ==
               /\ is_identical_raw' = identical
               /\ success' = TRUE
               /\ returned' = Some(TRUE)
               /\ pc' = "done"
               /\ UNCHANGED error_message
       IN  /\ text2_raw' = r[1]
           /\ IF r[2] # None
              THEN fail("Error in Document 2: " \o r[2][1])
              ELSE IF text1_raw = None \/ r[1] = None
              THEN fail("Text extraction failed unexpectedly after checks.")
              ELSE IF Blank(text1_raw[1]) /\ Blank(r[1][1])
              THEN succeed(FALSE) /\ UNCHANGED <<chunks1, chunks2>>
              ELSE /\ chunks1' = c1
                   /\ chunks2' = c2
                   /\ IF c1 = <<>> /\ c2 = <<>>
                      THEN succeed(FALSE)
                      ELSE /\ pc' = "loop"
                           /\ UNCHANGED <<success, is_identical_raw,
                                          error_message, returned>>
    /\ i' = 0
    /\ all_change_blocks' = <<>>
    /\ origin' = <<>>
    /\ UNCHANGED <<file1, file2, text1_raw, summary, rendered_html,
                   api_call_counter, debug_logs, calls, answer, failed>>
    /\ UNCHANGED lexical_vars
    /\ UNCHANGED config_vars

\* compare(), lines 469-508: document 2 is extracted, the fast paths are
\* taken, both texts are chunked and the loop is entered
Extract2 ==
    /\ pc = "extract2"
    /\ LET r == ExtractTextFromFile(file2)
           c1 == file1.chunks
           c2 == file2.chunks
           fail(msg) ==
               /\ error_message' = Some(msg)
               /\ returned' = Some(FALSE)
               /\ pc' = "done"
               /\ UNCHANGED <<success, is_identical_raw, chunks1, chunks2>>
           succeed(identical) ==
               /\ is_identical_raw' = identical
               /\ success' = TRUE
               /\ returned' = Some(TRUE)
               /\ pc' = "done"
               /\ UNCHANGED error_message
       IN  /\ text2_raw' = r[1]
           /\ IF r[2] # None
              THEN fail("Error in Document 2: " \o r[2][1])
              ELSE IF text1_raw = None \/ r[1] = None
              THEN fail("Text extraction failed unexpectedly after checks.")
              ELSE IF text1_raw = r[1]
              THEN succeed(TRUE) /\ UNCHANGED <<chunks1, chunks2>>
              ELSE IF Blank(text1_raw[1]) /\ Blank(r[1][1])
              THEN succeed(FALSE) /\ UNCHANGED <<chunks1, chunks2>>
              ELSE /\ chunks1' = c1
                   /\ chunks2' = c2
                   /\ IF c1 = <<>> /\ c2 = <<>>
                      THEN succeed(FALSE)
                      ELSE /\ pc' = "loop"
                           /\ UNCHANGED <<success, is_identical_raw,
                                          error_message, returned>>
    /\ i' = 0
    /\ all_change_blocks' = <<>>
    /\ origin' = <<>>
    /\ UNCHANGED <<file1, file2, text1_raw, summary, rendered_html,
                   api_call_counter, debug_logs, calls, answer, failed>>
    /\ UNCHANGED lexical_vars
    /\ UNCHANGED config_vars

num_chunks_to_process == Max(Len(chunks1), Len(chunks2))

\* chunks[i] if i < len(chunks) else ""
ChunkAt(chunks, k) == IF k < Len(chunks) THEN chunks[k + 1] ELSE <<>>

\* mutant: identical chunks are sent to the oracle too
PairKind_NoEqualCheck(chunk1, chunk2) ==
    IF Blank(chunk1) /\ Blank(chunk2) THEN "skip"
    ELSE IF Blank(chunk1) /\ ~Blank(chunk2) THEN "added"
    ELSE IF ~Blank(chunk1) /\ Blank(chunk2) THEN "deleted"
    ELSE "call"

\* how the loop body treats a chunk pair, lines 515-537
PairKind(chunk1, chunk2) ==
    IF Blank(chunk1) /\ Blank(chunk2) THEN "skip"
    ELSE IF Blank(chunk1) /\ ~Blank(chunk2) THEN "added"
    ELSE IF ~Blank(chunk1) /\ Blank(chunk2) THEN "deleted"
    ELSE IF chunk1 = chunk2 THEN "equal"
    ELSE "call"

\* mutant: the added block carries the new chunk on the wrong side
LocalBlocks_WrongSide(chunk1, chunk2) ==
    IF Blank(chunk1) /\ Blank(chunk2) THEN <<>>
    ELSE IF Blank(chunk1) THEN <<[status |-> "added", text1 |-> chunk2, text2 |-> <<>>]>>
    ELSE IF Blank(chunk2) THEN <<[status |-> "deleted", text1 |-> chunk1, text2 |-> <<>>]>>
    ELSE IF chunk1 = chunk2 THEN <<[status |-> "equal", text1 |-> chunk1, text2 |-> chunk2]>>
    ELSE <<>>

\* the blocks the loop body appends for a pair it resolves without a call
LocalBlocks(chunk1, chunk2) ==
    CASE PairKind(chunk1, chunk2) = "added" ->
            <<[status |-> "added", text1 |-> <<>>, text2 |-> chunk2]>>
      [] PairKind(chunk1, chunk2) = "deleted" ->
            <<[status |-> "deleted", text1 |-> chunk1, text2 |-> <<>>]>>
      [] PairKind(chunk1, chunk2) = "equal" ->
            <<[status |-> "equal", text1 |-> chunk1, text2 |-> chunk2]>>
      [] OTHER -> <<>>

\* mutant: the new blocks are put in front of the list
ExtendBlocks_InFront(list, blocks) == blocks \o list

\* all_change_blocks.append(block) and all_change_blocks.extend(blocks)
ExtendBlocks(list, blocks) == list \o blocks

\* mutant: the loop goes on after a failed call
LoopAfterCall_Continue(result) == "loop"

\* lines 539-545: a call that returned None ends compare(), any other
\* result goes on with the next pair
LoopAfterCall(result) == IF result = None THEN "done" ELSE "loop"

\* one pass of the loop, lines 510-545
ProcessPair ==
    /\ pc = "loop"
    /\ i < num_chunks_to_process
    /\ LET chunk1 == ChunkAt(chunks1, i)
           chunk2 == ChunkAt(chunks2, i)
           extend(blocks) ==
               /\ all_change_blocks' = ExtendBlocks(all_change_blocks, blocks)
               /\ origin' = origin \o [k \in 1..Len(blocks) |-> i]
               /\ i' = i + 1
               /\ UNCHANGED <<success, error_message, returned, failed>>
       IN  IF PairKind(chunk1, chunk2) # "call"
           THEN /\ extend(LocalBlocks(chunk1, chunk2))
                /\ pc' = "loop"
                /\ UNCHANGED <<api_call_counter, debug_logs, calls, answer>>
           ELSE \E ans \in OracleAnswers :
                   LET r == CallGroqChangeBlocks(ans)
                   IN  /\ api_call_counter' = api_call_counter + 1
                       /\ calls' = Append(calls, i)
                       /\ answer' = Some(ans)
                       /\ debug_logs' = debug_logs
                              \o [k \in 1..Len(r.logs) |-> <<i, r.logs[k]>>]
                       /\ pc' = LoopAfterCall(r.result)
                       /\ IF r.result = None
                          THEN /\ error_message' = r.error_message
                               /\ success' = FALSE
                               /\ returned' = Some(success')
                               /\ failed' = Some(i)
                               /\ UNCHANGED <<all_change_blocks, origin, i>>
                          ELSE extend(r.result[1])
    /\ UNCHANGED <<file1, file2, is_identical_raw, text1_raw, text2_raw,
                   summary, rendered_html, chunks1, chunks2>>
    /\ UNCHANGED lexical_vars
    /\ UNCHANGED config_vars

\* lines 547-555: the loop is over, the summary is computed and the blocks
\* are rendered
Finalize ==
    /\ pc = "loop"
    /\ i >= num_chunks_to_process
    /\ summary' = CalculateSummary(all_change_blocks)
    /\ rendered_html' = Some(RenderChangeBlocksHtml(all_change_blocks))
    /\ success' = TRUE
    /\ returned' = Some(TRUE)
    /\ pc' = "done"
    /\ UNCHANGED <<file1, file2, error_message, is_identical_raw, text1_raw,
                   text2_raw, all_change_blocks, api_call_counter, debug_logs,
                   chunks1, chunks2, i, origin, calls, answer, failed>>
    /\ UNCHANGED lexical_vars
    /\ UNCHANGED config_vars

Next == Begin \/ Extract1 \/ Extract2 \/ ProcessPair \/ Finalize

Spec == Init /\ [][Next]_vars

(***************************************************************************)
(* PDFComparator: the lexical line diff with word-level highlighting.      *)
(*                                                                         *)
(* diff_html is the list html_out that "\n".join joins: one entry          *)
(* [cls, marker, content] per rendered line, standing for                  *)
(* <span class='diff-line cls'><span class='diff-marker'>marker</span>     *)
(* content</span>.  The content is a sequence of pieces: escaped text      *)
(* [cls |-> "", body], a word span [cls, body] or a link.                  *)
(***************************************************************************)
\* line[p:] starts with prefix (p 0-based)
StartsWithAt(line, p, prefix) ==
    /\ p + Len(prefix) <= Len(line)
    /\ \A k \in 1..Len(prefix) : line[p + k] = prefix[k]

UrlPrefixes ==
    {<<"h", "t", "t", "p", ":", "/", "/">>,
     <<"h", "t", "t", "p", "s", ":", "/", "/">>,
     <<"f", "t", "p", ":", "/", "/">>,
     <<"w", "w", "w", ".">>}

\* the end of the longest run of non-whitespace characters from position p
RECURSIVE NonSpaceEnd(_, _)
NonSpaceEnd(line, p) ==
    IF p < Len(line) /\ ~IsSpace(line[p + 1]) THEN NonSpaceEnd(line, p + 1) ELSE p

\* url_pattern matched at position p: the end of the match, or -1.
\* (?:https?://|ftp://|www\.) then [^\s/$.?#] then . then [^\s]*
UrlMatchEnd(line, p) ==
    LET starts == {prefix \in UrlPrefixes : StartsWithAt(line, p, prefix)}
    IN  IF starts = {} THEN -1
        ELSE LET q == p + Len(CHOOSE prefix \in starts : TRUE)
             IN  IF /\ q + 2 <= Len(line)
                    /\ ~IsSpace(line[q + 1])
                    /\ line[q + 1] \notin {"/", "$", ".", "?", "#"}
                    /\ line[q + 2] # "\n"
                 THEN NonSpaceEnd(line, q + 2)
                 ELSE -1

\* the <a> element _format_links writes for a matched url
Link(url) ==
    LET www == <<"w", "w", "w", ".">>
        href == IF StartsWithAt(url, 0, www)
                THEN <<"h", "t", "t", "p", ":", "/", "/">> \o url ELSE url
    IN  [cls |-> "a", href |-> HtmlEscape(href), title |-> HtmlEscape(href),
         body |-> HtmlEscape(url)]

\* the loop of _format_links over url_pattern.finditer(line), from the
\* scan position p, with last_end the end of the previous match
RECURSIVE FormatLinksFrom(_, _, _)
FormatLinksFrom(line, p, last_end) ==
    IF p >= Len(line)
    THEN <<Bare(HtmlEscape(Slice(line, last_end, Len(line))))>>
    ELSE LET end == UrlMatchEnd(line, p)
         IN  IF end = -1 THEN FormatLinksFrom(line, p + 1, last_end)
             ELSE <<Bare(HtmlEscape(Slice(line, last_end, p))),
                    Link(Slice(line, p, end))>>
                  \o FormatLinksFrom(line, end, end)

\* PDFComparator._format_links
FormatLinks(line) == FormatLinksFrom(line, 0, 0)

\* mutant: the spans of the delete and insert branches are swapped
WordDiffOpcode_Swapped(op, words1, words2) ==
    LET escaped1 == HtmlEscape(Join(Slice(words1, op.i1, op.i2)))
        escaped2 == HtmlEscape(Join(Slice(words2, op.j1, op.j2)))
    IN  CASE op.tag = "equal" -> <<Bare(escaped2)>>
          [] op.tag = "delete" -> <<Span("word-added", escaped1)>>
          [] op.tag = "insert" -> <<Span("word-deleted", escaped2)>>
          [] op.tag = "replace" ->
                (IF Strip(escaped1) # <<>>
                 THEN <<Span("word-deleted", escaped1)>> ELSE <<>>)
                \o (IF Strip(escaped2) # <<>>
                    THEN <<Span("word-added", escaped2)>> ELSE <<>>)

\* the entries one opcode of _generate_word_diff_html appends to html_out
WordDiffOpcode(op, words1, words2) ==
    LET escaped1 == HtmlEscape(Join(Slice(words1, op.i1, op.i2)))
        escaped2 == HtmlEscape(Join(Slice(words2, op.j1, op.j2)))
    IN  CASE op.tag = "equal" -> <<Bare(escaped2)>>
          [] op.tag = "delete" -> <<Span("word-deleted", escaped1)>>
          [] op.tag = "insert" -> <<Span("word-added", escaped2)>>
          [] op.tag = "replace" ->
                (IF Strip(escaped1) # <<>>
                 THEN <<Span("word-deleted", escaped1)>> ELSE <<>>)
                \o (IF Strip(escaped2) # <<>>
                    THEN <<Span("word-added", escaped2)>> ELSE <<>>)

RECURSIVE WordDiffOpcodes(_, _, _)
WordDiffOpcodes(opcodes, words1, words2) ==
    IF opcodes = <<>> THEN <<>>
    ELSE WordDiffOpcode(Head(opcodes), words1, words2)
         \o WordDiffOpcodes(Tail(opcodes), words1, words2)

\* PDFComparator._generate_word_diff_html
GenerateWordDiffHtml(line1, line2) ==
    WordDiffOpcodes(GetOpcodes(Words(line1), Words(line2)), Words(line1), Words(line2))

DiffLine(cls, mark, content) == [cls |-> cls, marker |-> mark, content |-> content]

\* a line rendered whole: escaped, then passed to _format_links
WholeLine(cls, mark, line) == DiffLine(cls, mark, FormatLinks(HtmlEscape(line)))

\* the loop of the equal, insert and delete branches over a span of lines
RECURSIVE WholeLines(_, _, _)
WholeLines(cls, mark, lines) ==
    IF lines = <<>> THEN <<>>
    ELSE <<WholeLine(cls, mark, Head(lines))>> \o WholeLines(cls, mark, Tail(lines))

\* mutant: the lines of a replace opcode that have no partner are not
\* rendered
RECURSIVE ReplaceLines_PairedOnly(_, _, _)
ReplaceLines_PairedOnly(span1, span2, k) ==
    IF k >= Len(span1) \/ k >= Len(span2) THEN <<>>
    ELSE <<DiffLine("diff-modified", "*",
                    GenerateWordDiffHtml(span1[k + 1], span2[k + 1]))>>
         \o ReplaceLines_PairedOnly(span1, span2, k + 1)

\* the loop of the replace branch, lines 159-176, from index k
RECURSIVE ReplaceLines(_, _, _)
ReplaceLines(span1, span2, k) ==
    IF k >= Max(Len(span1), Len(span2)) THEN <<>>
    ELSE LET line1 == IF k < Len(span1) THEN span1[k + 1] ELSE <<>>
             line2 == IF k < Len(span2) THEN span2[k + 1] ELSE <<>>
             out == IF line1 # <<>> /\ line2 # <<>>
                    THEN <<DiffLine("diff-modified", "*",
                                    GenerateWordDiffHtml(line1, line2))>>
                    ELSE IF line2 # <<>> THEN <<WholeLine("diff-added", "+", line2)>>
                    ELSE IF line1 # <<>> THEN <<WholeLine("diff-deleted", "-", line1)>>
                    ELSE <<>>
         IN  out \o ReplaceLines(span1, span2, k + 1)

\* mutant: a replace opcode counts only the lines that have no partner
ReplaceCount_Unpaired(len1, len2) ==
    IF len1 >= len2 THEN len1 - len2 ELSE len2 - len1

\* mutant: a replaced run counts the lines of its shorter side
ReplaceCount_Min(len1, len2) == IF len1 <= len2 THEN len1 ELSE len2

\* lines_modified += max(len1, len2), line 156
ReplaceCount(len1, len2) == Max(len1, len2)

\* one pass of the loop over the opcodes, lines 135-176: acc holds html_out
\* and the three counters
DiffOpcode(acc, op, text1_lines, text2_lines) ==
    LET span1 == Slice(text1_lines, op.i1, op.i2)
        span2 == Slice(text2_lines, op.j1, op.j2)
    IN  CASE op.tag = "equal" ->
                [acc EXCEPT !.html_out = @ \o WholeLines("diff-equal", " ", span1)]
          [] op.tag = "insert" ->
                [acc EXCEPT !.html_out = @ \o WholeLines("diff-added", "+", span2),
                            !.lines_added = @ + Len(span2)]
          [] op.tag = "delete" ->
                [acc EXCEPT !.html_out = @ \o WholeLines("diff-deleted", "-", span1),
                            !.lines_deleted = @ + Len(span1)]
          [] op.tag = "replace" ->
                [acc EXCEPT !.html_out = @ \o ReplaceLines(span1, span2, 0),
                            !.lines_modified = @ + ReplaceCount(Len(span1), Len(span2))]

RECURSIVE DiffOpcodes(_, _, _, _)
DiffOpcodes(opcodes, acc, text1_lines, text2_lines) ==
    IF opcodes = <<>> THEN acc
    ELSE DiffOpcodes(Tail(opcodes),
                     DiffOpcode(acc, Head(opcodes), text1_lines, text2_lines),
                     text1_lines, text2_lines)

\* PDFComparator._generate_diff_html_with_word_level: the returned markup
\* and the summary it stores
GenerateDiffHtmlWithWordLevel(text1_lines, text2_lines) ==
    LET acc == DiffOpcodes(GetOpcodes(text1_lines, text2_lines),
                           [html_out |-> <<>>, lines_added |-> 0,
                            lines_deleted |-> 0, lines_modified |-> 0],
                           text1_lines, text2_lines)
    IN  [html |-> acc.html_out,
         summary |-> [lines_added |-> acc.lines_added,
                      lines_deleted |-> acc.lines_deleted,
                      lines_modified |-> acc.lines_modified]]

\* the lines the normalizer can return: non-empty, trimmed, single spaces
NormalizedLines == {<<"a">>, <<"b">>, <<"a", " ", "b">>}

LineLists == UNION {[1..n -> NormalizedLines] : n \in 0..MaxLines}

\* the comparator right before line 230 of compare(): both texts are
\* preprocessed and the line lists differ
DiffInit ==
    /\ pc = "diff"
    /\ text1_processed_lines \in {Some(lines) : lines \in LineLists}
    /\ text2_processed_lines \in {Some(lines) : lines \in LineLists}
    /\ text1_processed_lines # text2_processed_lines
    /\ file1 = None
    /\ file2 = None
    /\ success = FALSE
    /\ error_message = None
    /\ is_identical_raw = FALSE
    /\ is_identical = FALSE
    /\ text1_raw = None
    /\ text2_raw = None
    /\ diff_html = None
    /\ summary = [lines_added |-> 0, lines_deleted |-> 0, lines_modified |-> 0]
    /\ all_change_blocks = <<>>
    /\ rendered_html = None
    /\ api_call_counter = 0
    /\ debug_logs = <<>>
    /\ chunks1 = <<>>
    /\ chunks2 = <<>>
    /\ i = 0
    /\ returned = None
    /\ origin = <<>>
    /\ calls = <<>>
    /\ answer = None
    /\ failed = None
    /\ ignore_case = FALSE
    /\ ignore_punctuation = FALSE
    /\ de_hyphenate = FALSE
    /\ max_chunk_tokens = 0

\* compare(), lines 230-235: the diff is generated and stored
GenerateDiff ==
    /\ pc = "diff"
    /\ LET r == GenerateDiffHtmlWithWordLevel(text1_processed_lines[1],
                                              text2_processed_lines[1])
       IN  /\ diff_html' = Some(r.html)
           /\ summary' = r.summary
    /\ success' = TRUE
    /\ returned' = Some(TRUE)
    /\ pc' = "done"
    /\ UNCHANGED <<file1, file2, error_message, is_identical_raw, is_identical,
                   text1_raw, text2_raw, text1_processed_lines,
                   text2_processed_lines>>
    /\ UNCHANGED semantic_vars
    /\ UNCHANGED config_vars

DiffNext == GenerateDiff

DiffSpec == DiffInit /\ [][DiffNext]_vars

(***************************************************************************)
(* PDFComparator's normalizer: _apply_preprocessing_options and            *)
(* _preprocess_text.                                                       *)
(***************************************************************************)
\* str.lower() of one character, on the letters the model's texts use
Lower(c) == CASE c = "A" -> "a" [] c = "B" -> "b" [] c = "H" -> "h" [] OTHER -> c

\* string.punctuation, but for the backquote, which no text here has
Punctuation ==
    {"!", "\"", "#", "$", "%", "&", "'", "(", ")", "*", "+", ",", "-", ".",
     "/", ":", ";", "<", "=", ">", "?", "@", "[", "\\", "]", "^", "_",
     "{", "|", "}", "~"}

\* re.sub(r'\s+', ' ', text)
RECURSIVE CollapseSpaces(_)
CollapseSpaces(text) ==
    IF text = <<>> THEN <<>>
    ELSE IF IsSpace(Head(text)) THEN <<" ">> \o CollapseSpaces(LStrip(text))
    ELSE <<Head(text)>> \o CollapseSpaces(Tail(text))

\* mutant: the line is not trimmed after the whitespace is collapsed
ApplyPreprocessingOptions_NoStrip(text, ic, ip) ==
    LET lowered == IF ic THEN [k \in 1..Len(text) |-> Lower(text[k])] ELSE text
        kept == IF ip THEN SelectSeq(lowered, LAMBDA c : c \notin Punctuation)
                ELSE lowered
    IN  CollapseSpaces(kept)

\* _apply_preprocessing_options, with self.ignore_case and
\* self.ignore_punctuation as ic and ip
ApplyPreprocessingOptions(text, ic, ip) ==
    LET lowered == IF ic THEN [k \in 1..Len(text) |-> Lower(text[k])] ELSE text
        kept == IF ip THEN SelectSeq(lowered, LAMBDA c : c \notin Punctuation)
                ELSE lowered
    IN  Strip(CollapseSpaces(kept))

\* mutant: the hyphenated line ends are left as they are
DeHyphenate_Off(text) == text

\* re.sub(r'-\s*\n\s*', '', text): a hyphen is removed together with the
\* whole run of whitespace after it when that run has a "\n" in it
RECURSIVE DeHyphenate(_)
DeHyphenate(text) ==
    IF text = <<>> THEN <<>>
    ELSE LET rest == Tail(text)
             run == Len(rest) - Len(LStrip(rest))
         IN  IF Head(text) = "-" /\ \E k \in 1..run : rest[k] = "\n"
             THEN DeHyphenate(LStrip(rest))
             ELSE <<Head(text)>> \o DeHyphenate(rest)

\* the line boundaries of str.splitlines() among the model's characters
LineBreaks == {"\n", "\r", "\f"}

\* str.splitlines(): "\r\n" is one boundary, and a boundary at the end of
\* the text opens no further line
RECURSIVE SplitLinesFrom(_, _, _)
SplitLinesFrom(text, k, cur) ==
    IF k > Len(text) THEN (IF cur = <<>> THEN <<>> ELSE <<cur>>)
    ELSE IF text[k] = "\r" /\ k < Len(text) /\ text[k + 1] = "\n"
    THEN <<cur>> \o SplitLinesFrom(text, k + 2, <<>>)
    ELSE IF text[k] \in LineBreaks
    THEN <<cur>> \o SplitLinesFrom(text, k + 1, <<>>)
    ELSE SplitLinesFrom(text, k + 1, Append(cur, text[k]))

SplitLines(text) == SplitLinesFrom(text, 1, <<>>)

\* the loop of _preprocess_text, lines 68-72: the lines that are not empty
\* after _apply_preprocessing_options, in order
ProcessLines(lines, ic, ip) ==
    SelectSeq([k \in 1..Len(lines) |-> ApplyPreprocessingOptions(lines[k], ic, ip)],
              LAMBDA line : line # <<>>)

\* _preprocess_text of a text that is not None, with self.de_hyphenate as dh
PreprocessText(raw_text, ic, ip, dh) ==
    ProcessLines(SplitLines(IF dh THEN DeHyphenate(raw_text) ELSE raw_text), ic, ip)

(***************************************************************************)
(* PDFComparator.compare.  The steps of the lexical comparison have their  *)
(* own pc values, so that one specification can hold both comparators.     *)
(***************************************************************************)
\* the two single-line documents "Hello world" and "Hello world extra"
HelloWorld == <<"H", "e", "l", "l", "o", " ", "w", "o", "r", "l", "d">>

HelloWorldExtra == HelloWorld \o <<" ", "e", "x", "t", "r", "a">>

\* the texts the extractor returns for the uploaded files: stripped, and
\* chosen so that pairs are equal raw, equal only under one of the options,
\* or different under all of them
LexTexts ==
    {<<>>, <<"a">>, <<"A">>, <<"a", ".">>, <<"a", "b">>,
     <<"a", "-", "\n", "b">>, <<"a", "\n", "b">>,
     <<"a", " ", "b", "\n", "b">>, HelloWorld, HelloWorldExtra}

LexFiles ==
    {[error |-> None, text |-> Some(t)] : t \in LexTexts} \cup
    {[error |-> Some("Corrupted or invalid PDF."), text |-> None]}

zero_summary == [lines_added |-> 0, lines_deleted |-> 0, lines_modified |-> 0]

\* __init__, lines 27-42: the options are the caller's
LexInit ==
    /\ pc = "lex_idle"
    /\ file1 \in LexFiles
    /\ file2 \in LexFiles
    /\ ignore_case \in BOOLEAN
    /\ ignore_punctuation \in BOOLEAN
    /\ de_hyphenate \in BOOLEAN
    /\ max_chunk_tokens = 0
    /\ success = FALSE
    /\ error_message = None
    /\ is_identical_raw = FALSE
    /\ is_identical = FALSE
    /\ text1_raw = None
    /\ text2_raw = None
    /\ text1_processed_lines = None
    /\ text2_processed_lines = None
    /\ diff_html = None
    /\ summary = zero_summary
    /\ all_change_blocks = <<>>
    /\ rendered_html = None
    /\ api_call_counter = 0
    /\ debug_logs = <<>>
    /\ chunks1 = <<>>
    /\ chunks2 = <<>>
    /\ i = 0
    /\ returned = None
    /\ origin = <<>>
    /\ calls = <<>>
    /\ answer = None
    /\ failed = None

\* compare(), lines 185-189: every result field is reset
LexBegin ==
    /\ pc = "lex_idle"
    /\ pc' = "lex_extract1"
    /\ success' = FALSE
    /\ error_message' = None
    /\ is_identical' = FALSE
    /\ is_identical_raw' = FALSE
    /\ diff_html' = None
    /\ summary' = zero_summary
    /\ text1_raw' = None
    /\ text2_raw' = None
    /\ text1_processed_lines' = None
    /\ text2_processed_lines' = None
    /\ returned' = None
    /\ UNCHANGED <<file1, file2>>
    /\ UNCHANGED semantic_vars
    /\ UNCHANGED config_vars

\* mutant: the error of document 1 is not looked at
LexExtract1_ErrorIgnored ==
    /\ pc = "lex_extract1"
    /\ text1_raw' = ExtractTextFromFile(file1)[1]
    /\ pc' = "lex_extract2"
    /\ UNCHANGED <<error_message, returned>>
    /\ UNCHANGED <<file1, file2, success, is_identical_raw, text2_raw, summary>>
    /\ UNCHANGED lexical_vars
    /\ UNCHANGED semantic_vars
    /\ UNCHANGED config_vars

\* compare(), lines 192-195: document 1 is extracted
LexExtract1 ==
    /\ pc = "lex_extract1"
    /\ LET r == ExtractTextFromFile(file1)
       IN  /\ text1_raw' = r[1]
           /\ IF r[2] # None
              THEN /\ error_message' = Some("Error in Document 1: " \o r[2][1])
                   /\ returned' = Some(FALSE)
                   /\ pc' = "done"
              ELSE /\ pc' = "lex_extract2"
                   /\ UNCHANGED <<error_message, returned>>
    /\ UNCHANGED <<file1, file2, success, is_identical_raw, text2_raw, summary>>
    /\ UNCHANGED lexical_vars
    /\ UNCHANGED semantic_vars
    /\ UNCHANGED config_vars

\* compare(), lines 197-204: document 2 is extracted
LexExtract2 ==
    /\ pc = "lex_extract2"
    /\ LET r == ExtractTextFromFile(file2)
       IN  /\ text2_raw' = r[1]
           /\ IF r[2] # None
              THEN /\ error_message' = Some("Error in Document 2: " \o r[2][1])
                   /\ returned' = Some(FALSE)
                   /\ pc' = "done"
              ELSE IF text1_raw = None \/ r[1] = None
              THEN /\ error_message' = Some("Text extraction failed unexpectedly.")
                   /\ returned' = Some(FALSE)
                   /\ pc' = "done"
              ELSE /\ pc' = "lex_compare"
                   /\ UNCHANGED <<error_message, returned>>
    /\ UNCHANGED <<file1, file2, success, is_identical_raw, text1_raw, summary>>
    /\ UNCHANGED lexical_vars
    /\ UNCHANGED semantic_vars
    /\ UNCHANGED config_vars

\* compare(), lines 206-228: the raw fast path, the preprocessing of both
\* texts and the comparison of the line lists
LexCompareTexts ==
    /\ pc = "lex_compare"
    /\ LET raw_check_possible ==
               ~(ignore_case \/ ignore_punctuation \/ de_hyphenate)
           lines1 == PreprocessText(text1_raw[1], ignore_case,
                                    ignore_punctuation, de_hyphenate)
           lines2 == PreprocessText(text2_raw[1], ignore_case,
                                    ignore_punctuation, de_hyphenate)
       IN  IF raw_check_possible /\ text1_raw = text2_raw
           THEN /\ is_identical_raw' = TRUE
                /\ is_identical' = TRUE
                /\ success' = TRUE
                /\ returned' = Some(TRUE)
                /\ pc' = "done"
                /\ UNCHANGED <<text1_processed_lines, text2_processed_lines>>
           ELSE /\ text1_processed_lines' = Some(lines1)
                /\ text2_processed_lines' = Some(lines2)
                /\ IF lines1 = lines2
                   THEN /\ is_identical' = TRUE
                        /\ success' = TRUE
                        /\ is_identical_raw' = (raw_check_possible /\ is_identical_raw)
                        /\ returned' = Some(TRUE)
                        /\ pc' = "done"
                   ELSE /\ pc' = "diff"
                        /\ UNCHANGED <<is_identical, success, is_identical_raw,
                                       returned>>
    /\ UNCHANGED <<file1, file2, error_message, text1_raw, text2_raw, summary,
                   diff_html>>
    /\ UNCHANGED semantic_vars
    /\ UNCHANGED config_vars

LexNext ==
    LexBegin \/ LexExtract1 \/ LexExtract2 \/ LexCompareTexts \/ GenerateDiff

LexSpec == LexInit /\ [][LexNext]_vars

\* a comparator of either class
CompareInit == Init \/ LexInit

CompareNext == Next \/ LexNext

CompareSpec == CompareInit /\ [][CompareNext]_vars

(***************************************************************************)
(* Exceptions and repeated calls.  The specifications above are compare()  *)
(* when no statement raises and the object is used once.  Here a statement *)
(* of compare() can raise (the tokenizer on a text it rejects, the         *)
(* extractor on a file object it cannot handle, any statement on a lack of *)
(* memory), and compare() can be called again on the same object.          *)
(***************************************************************************)
\* compare(), lines 492-499: the chunker raises
ChunkingError ==
    /\ pc = "extract2"
    /\ LET r == ExtractTextFromFile(file2)
       IN  /\ r[2] = None
           /\ text1_raw # None
           /\ r[1] # None
           /\ text1_raw # r[1]
           /\ ~(Blank(text1_raw[1]) /\ Blank(r[1][1]))
           /\ text2_raw' = r[1]
    /\ error_message' = Some("Error during text chunking")
    /\ returned' = Some(FALSE)
    /\ pc' = "done"
    /\ UNCHANGED <<file1, file2, success, is_identical_raw, text1_raw, summary>>
    /\ UNCHANGED semantic_vars
    /\ UNCHANGED lexical_vars
    /\ UNCHANGED config_vars

\* mutant: the failure of the finalization leaves no message
FinalizationError_Silent ==
    /\ pc = "loop"
    /\ i >= num_chunks_to_process
    /\ summary' \in {summary, CalculateSummary(all_change_blocks)}
    /\ success' = FALSE
    /\ returned' = Some(success')
    /\ pc' = "done"
    /\ UNCHANGED <<file1, file2, is_identical_raw, text1_raw, text2_raw,
                   error_message>>
    /\ UNCHANGED semantic_vars
    /\ UNCHANGED lexical_vars
    /\ UNCHANGED config_vars

\* compare(), lines 550-560: _calculate_summary raises, or
\* _render_change_blocks_html raises after the summary was stored
FinalizationError ==
    /\ pc = "loop"
    /\ i >= num_chunks_to_process
    /\ summary' \in {summary, CalculateSummary(all_change_blocks)}
    /\ error_message' = Some("Error during result finalization")
    /\ success' = FALSE
    /\ returned' = Some(success')
    /\ pc' = "done"
    /\ UNCHANGED <<file1, file2, is_identical_raw, text1_raw, text2_raw>>
    /\ UNCHANGED semantic_vars
    /\ UNCHANGED lexical_vars
    /\ UNCHANGED config_vars

\* compare(), lines 562-567: a statement outside the two inner try blocks
\* raises
UnexpectedError ==
    /\ \/ pc \in {"extract1", "extract2"}
       \/ pc = "loop" /\ i < num_chunks_to_process
    /\ error_message' = IF error_message = None
                        THEN Some("Unexpected error during comparison")
                        ELSE error_message
    /\ success' = FALSE
    /\ returned' = Some(success')
    /\ pc' = "done"
    /\ UNCHANGED <<file1, file2, is_identical_raw, text1_raw, text2_raw, summary>>
    /\ UNCHANGED semantic_vars
    /\ UNCHANGED lexical_vars
    /\ UNCHANGED config_vars

\* PDFComparator.compare(), lines 237-241: a statement of the try block
\* raises
LexUnexpectedError ==
    /\ pc \in {"lex_extract1", "lex_extract2", "lex_compare", "diff"}
    /\ error_message' = Some("Unexpected error during basic comparison")
    /\ success' = FALSE
    /\ returned' = Some(TRUE)
    /\ pc' = "done"
    /\ UNCHANGED <<file1, file2, is_identical_raw, text1_raw, text2_raw, summary>>
    /\ UNCHANGED lexical_vars
    /\ UNCHANGED semantic_vars
    /\ UNCHANGED config_vars

\* compare() has returned, its locals are gone, and the caller calls it
\* again on the same object: the fields are as the last call left them
CallAgain ==
    /\ pc = "done"
    /\ file1 # None
    /\ pc' = IF DOMAIN summary = DOMAIN zero_summary THEN "lex_idle" ELSE "idle"
    /\ chunks1' = <<>>
    /\ chunks2' = <<>>
    /\ i' = 0
    /\ UNCHANGED <<file1, file2, success, error_message, is_identical_raw,
                   text1_raw, text2_raw, summary, all_change_blocks,
                   rendered_html, api_call_counter, debug_logs, returned,
                   origin, calls, answer, failed>>
    /\ UNCHANGED lexical_vars
    /\ UNCHANGED config_vars

SessionNext ==
    \/ CompareNext
    \/ ChunkingError
    \/ FinalizationError
    \/ UnexpectedError
    \/ LexUnexpectedError
    \/ CallAgain

SessionSpec == CompareInit /\ [][SessionNext]_vars

(***************************************************************************)
(* The normalizer on its own: _preprocess_text applied to any raw text of  *)
(* up to MaxRaw characters under any combination of the options.           *)
(***************************************************************************)
\* a lower-case and an upper-case letter, a punctuation character that is
\* also the hyphen, a space, and two of the line boundaries of splitlines
RawChars == {"a", "A", "-", " ", "\n", "\f"}

RawTexts == UNION {[1..n -> RawChars] : n \in 0..MaxRaw}

NormInit ==
    /\ pc = "norm"
    /\ text1_raw \in {Some(t) : t \in RawTexts}
    /\ ignore_case \in BOOLEAN
    /\ ignore_punctuation \in BOOLEAN
    /\ de_hyphenate \in BOOLEAN
    /\ max_chunk_tokens = 0
    /\ file1 = None
    /\ file2 = None
    /\ success = FALSE
    /\ error_message = None
    /\ is_identical_raw = FALSE
    /\ is_identical = FALSE
    /\ text2_raw = None
    /\ text1_processed_lines = None
    /\ text2_processed_lines = None
    /\ diff_html = None
    /\ summary = zero_summary
    /\ all_change_blocks = <<>>
    /\ rendered_html = None
    /\ api_call_counter = 0
    /\ debug_logs = <<>>
    /\ chunks1 = <<>>
    /\ chunks2 = <<>>
    /\ i = 0
    /\ returned = None
    /\ origin = <<>>
    /\ calls = <<>>
    /\ answer = None
    /\ failed = None

\* compare(), line 214: self.text1_processed_lines = _preprocess_text(...)
Normalize ==
    /\ pc = "norm"
    /\ text1_processed_lines' =
          Some(PreprocessText(text1_raw[1], ignore_case, ignore_punctuation,
                              de_hyphenate))
    /\ pc' = "done"
    /\ UNCHANGED <<file1, file2, success, error_message, is_identical_raw,
                   is_identical, text1_raw, text2_raw, text2_processed_lines,
                   diff_html, summary, returned>>
    /\ UNCHANGED semantic_vars
    /\ UNCHANGED config_vars

NormNext == Normalize

NormSpec == NormInit /\ [][NormNext]_vars

(***************************************************************************)
(* The chunker on its own: _chunk_text_by_tokens applied to texts of up to *)
(* MaxWords words, under a budget at the floor of 500 tokens and one just  *)
(* above it.                                                               *)
(***************************************************************************)
\* n times the character c
Rep(c, n) == [k \in 1..n |-> c]

\* a short word, a word that ends a sentence, a word of half the floor
\* budget, and a word that is over the budget on its own
ChunkWords == {<<"a">>, <<"b", ".">>, Rep("c", 250), Rep("e", 501)}

\* what stands between two words: a space, a line break, a paragraph break
WordSeparators == {<<" ">>, <<"\n">>, <<"\n", "\n">>}

RECURSIVE Interleave(_, _)
Interleave(words, seps) ==
    IF Len(words) = 1 THEN words[1]
    ELSE words[1] \o seps[1] \o Interleave(Tail(words), Tail(seps))

ChunkerTexts ==
    {<<>>} \cup
    UNION {{Interleave(words, seps) :
                words \in [1..n -> ChunkWords], seps \in [1..(n - 1) -> WordSeparators]} :
           n \in 1..MaxWords}

\* the budgets the constructor is asked for
RequestedBudgets == {100, 502}

ChunkInit ==
    /\ pc = "chunk"
    /\ text1_raw \in {Some(t) : t \in ChunkerTexts}
    /\ max_chunk_tokens \in {EffectiveBudget(r) : r \in RequestedBudgets}
    /\ ignore_case = FALSE
    /\ ignore_punctuation = FALSE
    /\ de_hyphenate = FALSE
    /\ file1 = None
    /\ file2 = None
    /\ success = FALSE
    /\ error_message = None
    /\ is_identical_raw = FALSE
    /\ is_identical = FALSE
    /\ text2_raw = None
    /\ text1_processed_lines = None
    /\ text2_processed_lines = None
    /\ diff_html = None
    /\ summary = default_summary
    /\ all_change_blocks = <<>>
    /\ rendered_html = None
    /\ api_call_counter = 0
    /\ debug_logs = <<>>
    /\ chunks1 = <<>>
    /\ chunks2 = <<>>
    /\ i = 0
    /\ returned = None
    /\ origin = <<>>
    /\ calls = <<>>
    /\ answer = None
    /\ failed = None

\* compare(), line 493: chunks1 = self._chunk_text_by_tokens(self.text1_raw)
ChunkText ==
    /\ pc = "chunk"
    /\ chunks1' = ChunkTextByTokens(text1_raw[1], max_chunk_tokens)
    /\ pc' = "done"
    /\ UNCHANGED <<file1, file2, success, error_message, is_identical_raw,
                   text1_raw, text2_raw, summary, returned, all_change_blocks,
                   rendered_html, api_call_counter, debug_logs, chunks2, i,
                   origin, calls, answer, failed>>
    /\ UNCHANGED lexical_vars
    /\ UNCHANGED config_vars

ChunkNext == ChunkText

ChunkSpec == ChunkInit /\ [][ChunkNext]_vars

(***************************************************************************)
(* The two renderers on texts that hold markup characters, line breaks and *)
(* links: the semantic comparator right before it renders the blocks of    *)
(* one oracle answer, and the lexical comparator right before it renders   *)
(* the diff of two line lists.                                             *)
(***************************************************************************)
\* the texts the blocks of the oracle carry here
RenderTexts ==
    {<<>>, TA, TC, <<"\n">>, <<"a", "\n", "\n", "b">>,
     <<"a", " ", "<", "&">>, <<"b", "\"", "'", ">">>}

\* an answer of one block, of every status, over these texts
RenderAnswers ==
    {Blocks(<<Obj(status, Str(t1), Str(t2))>>) :
        status \in {"equal", "added", "deleted", "modified"},
        t1 \in RenderTexts, t2 \in RenderTexts}

\* normalized lines with markup characters and a link
MarkupLines ==
    {<<"&">>, <<"a", " ", "<">>, <<"w", "w", "w", ".", "a", "\"">>}

MarkupLineLists == UNION {[1..n -> MarkupLines] : n \in 0..MaxLines}

\* GroqPDFComparator.compare() right before line 547: the one chunk pair
\* was sent to the oracle and the answer's blocks were appended
BlocksInit ==
    \E ans \in RenderAnswers :
        LET r == CallGroqChangeBlocks(ans)
        IN  /\ pc = "loop"
            /\ file1 = [error |-> None, text |-> Some(TA), chunks |-> <<TA>>]
            /\ file2 = [error |-> None, text |-> Some(TB), chunks |-> <<TB>>]
            /\ text1_raw = Some(TA)
            /\ text2_raw = Some(TB)
            /\ chunks1 = <<TA>>
            /\ chunks2 = <<TB>>
            /\ i = 1
            /\ all_change_blocks = r.result[1]
            /\ origin = [k \in 1..Len(r.result[1]) |-> 0]
            /\ calls = <<0>>
            /\ api_call_counter = 1
            /\ answer = Some(ans)
            /\ debug_logs = [k \in 1..Len(r.logs) |-> <<0, r.logs[k]>>]
            /\ failed = None
            /\ success = FALSE
            /\ error_message = None
            /\ is_identical_raw = FALSE
            /\ summary = default_summary
            /\ rendered_html = None
            /\ returned = None
            /\ is_identical = FALSE
            /\ text1_processed_lines = None
            /\ text2_processed_lines = None
            /\ diff_html = None
            /\ ignore_case = FALSE
            /\ ignore_punctuation = FALSE
            /\ de_hyphenate = FALSE
            /\ max_chunk_tokens = EffectiveBudget(2000)

\* PDFComparator.compare() right before line 230: both texts are
\* preprocessed and the line lists differ
MarkupDiffInit ==
    /\ pc = "diff"
    /\ text1_processed_lines \in {Some(lines) : lines \in MarkupLineLists}
    /\ text2_processed_lines \in {Some(lines) : lines \in MarkupLineLists}
    /\ text1_processed_lines # text2_processed_lines
    /\ file1 = None
    /\ file2 = None
    /\ success = FALSE
    /\ error_message = None
    /\ is_identical_raw = FALSE
    /\ is_identical = FALSE
    /\ text1_raw = None
    /\ text2_raw = None
    /\ diff_html = None
    /\ summary = zero_summary
    /\ all_change_blocks = <<>>
    /\ rendered_html = None
    /\ api_call_counter = 0
    /\ debug_logs = <<>>
    /\ chunks1 = <<>>
    /\ chunks2 = <<>>
    /\ i = 0
    /\ returned = None
    /\ origin = <<>>
    /\ calls = <<>>
    /\ answer = None
    /\ failed = None
    /\ ignore_case = FALSE
    /\ ignore_punctuation = FALSE
    /\ de_hyphenate = FALSE
    /\ max_chunk_tokens = 0

RenderInit == BlocksInit \/ MarkupDiffInit

RenderNext == Finalize \/ GenerateDiff

RenderSpec == RenderInit /\ [][RenderNext]_vars

(***************************************************************************)
(* Properties of the semantic comparison.                                  *)
(***************************************************************************)
\* the messages _call_groq_change_blocks leaves in error_message
OracleErrorMessages ==
    {"API Rate Limit Error", "API Bad Request Error", "Groq API Error",
     "Unexpected Error during API Call",
     "LLM Response Validation Error: LLM returned invalid JSON",
     "LLM Response Validation Error: LLM response missing 'change_blocks' key in the root JSON object.",
     "LLM Response Validation Error: 'change_blocks' value is not a JSON array.",
     "LLM Response Validation Error: Block is not a JSON object.",
     "LLM Response Validation Error: Block has invalid status.",
     "LLM Response Validation Error: Block 'text1' is not a string.",
     "LLM Response Validation Error: Block 'text2' is not a string."}

\* C1: once the oracle call for chunk pair k has returned no block list,
\* compare() has ended with success = false and an oracle error message;
\* the loop index is still k, no block was appended for a pair after k (nor
\* for k) and the oracle was not called for a pair after k.
C1_FailureStopsReconciliation ==
    failed # None =>
        LET k == failed[1]
        IN  /\ pc = "done"
            /\ success = FALSE
            /\ returned = Some(FALSE)
            /\ error_message # None
            /\ error_message[1] \in OracleErrorMessages
            /\ i = k
            /\ \A n \in 1..Len(origin) : origin[n] < k
            /\ \A n \in 1..Len(calls) : calls[n] <= k
            /\ calls[Len(calls)] = k
            /\ api_call_counter = Len(calls)

\* C1 witness: the call for a pair failed while a later pair was waiting
C1_Witness ==
    /\ failed # None
    /\ failed[1] + 1 < num_chunks_to_process
    /\ pc = "done"

\* C2 (as claimed): after a comparison that failed on an oracle error the
\* block list is empty, the rendered output is absent and the summary is
\* all zeros.
C2_NoPartialDiffExposed ==
    failed # None =>
        /\ all_change_blocks = <<>>
        /\ rendered_html = None
        /\ summary = default_summary

\* C5: in every state, every block of all_change_blocks with status deleted
\* has an empty text2 and every block with status added has an empty text1.
C5_BlockInvariant ==
    \A n \in 1..Len(all_change_blocks) :
        LET block == all_change_blocks[n]
        IN  /\ block.status = "deleted" => block.text2 = <<>>
            /\ block.status = "added" => block.text1 = <<>>

\* C5 witness: the oracle answered a deleted block with a non-empty text2
\* and an added block with a non-empty text1, and both were appended
C5_Witness ==
    /\ answer = Some(Blocks(<<Obj("deleted", Str(TC), Str(TC)),
                              Obj("added", Str(TB), Str(TA))>>))
    /\ Len(all_change_blocks) >= 2
    /\ all_change_blocks[Len(all_change_blocks)].status = "added"
    /\ all_change_blocks[Len(all_change_blocks) - 1].status = "deleted"

\* a text with no character other than whitespace
OnlySpace(text) == \A n \in 1..Len(text) : IsSpace(text[n])

\* the chunks of the pair the loop is at, a missing chunk being ""
ChunkA == IF i < Len(chunks1) THEN chunks1[i + 1] ELSE <<>>
ChunkB == IF i < Len(chunks2) THEN chunks2[i + 1] ELSE <<>>

\* the loop is at a pair
AtPair == pc = "loop" /\ i < Max(Len(chunks1), Len(chunks2))

\* C3: the pass of the loop over pair i appends nothing when both chunks
\* are blank, exactly one added block ("", chunk_b) when only A is blank,
\* exactly one deleted block (chunk_a, "") when only B is blank, and exactly
\* one equal block carrying the text on both sides when the non-blank
\* chunks are equal; none of these calls the oracle.
C3_LocalClassification ==
    [][AtPair =>
        /\ (OnlySpace(ChunkA) /\ OnlySpace(ChunkB)) =>
              /\ all_change_blocks' = all_change_blocks
              /\ api_call_counter' = api_call_counter
        /\ (OnlySpace(ChunkA) /\ ~OnlySpace(ChunkB)) =>
              /\ all_change_blocks' = Append(all_change_blocks,
                     [status |-> "added", text1 |-> <<>>, text2 |-> ChunkB])
              /\ api_call_counter' = api_call_counter
        /\ (~OnlySpace(ChunkA) /\ OnlySpace(ChunkB)) =>
              /\ all_change_blocks' = Append(all_change_blocks,
                     [status |-> "deleted", text1 |-> ChunkA, text2 |-> <<>>])
              /\ api_call_counter' = api_call_counter
        /\ (~OnlySpace(ChunkA) /\ ChunkA = ChunkB) =>
              /\ all_change_blocks' = Append(all_change_blocks,
                     [status |-> "equal", text1 |-> ChunkA, text2 |-> ChunkA])
              /\ api_call_counter' = api_call_counter
      ]_vars

\* C3 witness: an equal block and an added block were appended without a
\* call
C3_Witness ==
    /\ pc = "loop"
    /\ api_call_counter = 0
    /\ \E n \in 1..Len(all_change_blocks) :
          all_change_blocks[n] = [status |-> "equal", text1 |-> TB, text2 |-> TB]
    /\ \E n \in 1..Len(all_change_blocks) :
          all_change_blocks[n] = [status |-> "added", text1 |-> <<>>, text2 |-> TA]

\* the pairs the oracle is to be asked about: both chunks non-blank and
\* different
Unmatched(k) ==
    LET a == IF k < Len(chunks1) THEN chunks1[k + 1] ELSE <<>>
        b == IF k < Len(chunks2) THEN chunks2[k + 1] ELSE <<>>
    IN  ~OnlySpace(a) /\ ~OnlySpace(b) /\ a # b

\* C4: the oracle has been called exactly for the unmatched pairs the loop
\* has gone through, in index order and once each, the last of them being
\* the failed one when a call failed; api_call_counter counts these calls.
C4_OneCallPerUnmatchedPair ==
    LET through == IF failed # None THEN failed[1] + 1 ELSE i
    IN  /\ \A n \in 1..(Len(calls) - 1) : calls[n] < calls[n + 1]
        /\ {calls[n] : n \in 1..Len(calls)} = {k \in 0..(through - 1) : Unmatched(k)}
        /\ api_call_counter = Cardinality({k \in 0..(through - 1) : Unmatched(k)})
        /\ failed # None => Unmatched(failed[1])

\* C4 witness: compare() ended on the failure of the second call, with a
\* pair resolved locally between the two calls and an unmatched pair
\* never reached
C4_Witness ==
    /\ pc = "done"
    /\ failed = Some(1)
    /\ calls = <<0, 1>>
    /\ api_call_counter = 2
    /\ Unmatched(2)

\* the fields of an oracle block fit the reading of the validation loop:
\* an object with a valid status whose texts are strings or missing
WellFormed(item) ==
    /\ item.is_dict
    /\ item.status \in {"equal", "added", "deleted", "modified"}
    /\ item.text1.type \in {"null", "string"}
    /\ item.text2.type \in {"null", "string"}

\* the text a field stands for, a missing field standing for ""
FieldText(v) == IF v.type = "string" THEN v.val ELSE <<>>

\* an oracle block whose texts do not fit its status
Inconsistent(item) ==
    \/ item.status = "deleted" /\ FieldText(item.text2) # <<>>
    \/ item.status = "added" /\ FieldText(item.text1) # <<>>
    \/ item.status = "modified" /\ (FieldText(item.text1) = <<>> \/ FieldText(item.text2) = <<>>)
    \/ item.status = "equal" /\ FieldText(item.text1) # FieldText(item.text2)
    \/ item.text1.type = "null"
    \/ item.text2.type = "null"

\* the step is a call of the oracle
IsCall == AtPair /\ calls' # calls

\* C6: when the oracle answers a list of blocks that all have a valid
\* status and string or missing texts, the call does not fail, however the
\* texts fit the statuses: every block is appended in order with its
\* status, a deleted block with text2 = "", an added block with
\* text1 = "", the other texts as given, and the loop goes on with the
\* next pair.
C6_InconsistentBlocksNotFatal ==
    [][(/\ IsCall
        /\ answer'[1].kind = "json" /\ answer'[1].has_key /\ answer'[1].is_list
        /\ \A n \in 1..Len(answer'[1].items) : WellFormed(answer'[1].items[n]))
       =>
       LET items == answer'[1].items
           base == Len(all_change_blocks)
       IN  /\ pc' = "loop"
           /\ i' = i + 1
           /\ failed' = None
           /\ error_message' = None
           /\ Len(all_change_blocks') = base + Len(items)
           /\ SubSeq(all_change_blocks', 1, base) = all_change_blocks
           /\ \A n \in 1..Len(items) :
                 /\ all_change_blocks'[base + n].status = items[n].status
                 /\ all_change_blocks'[base + n].text1 =
                       (IF items[n].status = "added" THEN <<>>
                        ELSE FieldText(items[n].text1))
                 /\ all_change_blocks'[base + n].text2 =
                       (IF items[n].status = "deleted" THEN <<>>
                        ELSE FieldText(items[n].text2))
      ]_vars

\* C6 witness: the oracle answered a modified block with a missing text2
\* and the loop went on
C6_Witness ==
    /\ pc = "loop"
    /\ answer # None
    /\ Len(answer[1].items) = 1
    /\ Inconsistent(answer[1].items[1])
    /\ answer[1].items[1].status = "modified"
    /\ answer[1].items[1].text2.type = "null"
    /\ all_change_blocks # <<>>
    /\ all_change_blocks[Len(all_change_blocks)] =
          [status |-> "modified", text1 |-> TA, text2 |-> <<>>]

\* an answer of one of the oracle error kinds
OracleErrorKind(ans) ==
    \/ ans.kind \in {"RateLimitError", "BadRequestError", "APIError", "Exception",
                     "InvalidJSON"}
    \/ ans.kind = "json" /\ (~ans.has_key \/ ~ans.is_list)
    \/ /\ ans.kind = "json"
       /\ \E n \in 1..Len(ans.items) :
             \/ ~ans.items[n].is_dict
             \/ ans.items[n].status \notin {"equal", "added", "deleted", "modified"}
             \/ ans.items[n].text1.type \notin {"null", "string"}
             \/ ans.items[n].text2.type \notin {"null", "string"}

\* C7: a call the oracle answers with an error of any kind appends no
\* block, leaves an error message and ends compare() with success = false.
C7_OracleErrorsAreFatal ==
    [][(IsCall /\ OracleErrorKind(answer'[1])) =>
        /\ all_change_blocks' = all_change_blocks
        /\ pc' = "done"
        /\ success' = FALSE
        /\ returned' = Some(FALSE)
        /\ failed' = Some(i)
        /\ error_message' # None
      ]_vars

\* C7 witness: the second block of an answer had an invalid status, after
\* a first block that was valid, and compare() ended in failure
C7_Witness ==
    /\ pc = "done"
    /\ ~success
    /\ answer = Some(Blocks(<<Obj("added", Null, Str(TB)),
                              Obj("changed", Str(TA), Str(TB))>>))
    /\ all_change_blocks # <<>>

IsPrefix(s, t) == Len(s) <= Len(t) /\ SubSeq(t, 1, Len(s)) = s

\* C8: while the loop runs, a step only appends to all_change_blocks (what
\* was in the list stays, in place), the blocks of one oracle answer are
\* appended in the answer's order, the pairs the blocks were appended for
\* never decrease along the list, and api_call_counter never decreases.
C8_OrderedAppendOnly ==
    [][pc = "loop" =>
        /\ IsPrefix(all_change_blocks, all_change_blocks')
        /\ api_call_counter' >= api_call_counter
        /\ Len(origin') = Len(all_change_blocks')
        /\ \A m, n \in 1..Len(origin') : m < n => origin'[m] <= origin'[n]
        /\ \A n \in (Len(all_change_blocks) + 1)..Len(all_change_blocks') :
              origin'[n] = i
        /\ (calls' # calls /\ pc' = "loop") =>
              LET items == answer'[1].items
                  base == Len(all_change_blocks)
              IN  /\ Len(all_change_blocks') = base + Len(items)
                  /\ \A n \in 1..Len(items) :
                        all_change_blocks'[base + n].status = items[n].status
      ]_vars

\* C8 witness: a two-block answer was appended, in the oracle's order,
\* behind the block of an earlier pair
C8_Witness ==
    /\ pc = "loop"
    /\ origin = <<0, 1, 1>>
    /\ all_change_blocks[2].status = "equal"
    /\ all_change_blocks[3].status = "modified"
    /\ api_call_counter = 1

\* the sum of a sequence of numbers
RECURSIVE Sum(_)
Sum(ns) == IF ns = <<>> THEN 0 ELSE Head(ns) + Sum(Tail(ns))

\* the total length of the tokens words[lo], ..., words[hi - 1] (0-based)
TokenChars(words, lo, hi) == Sum([k \in 1..(hi - lo) |-> Len(words[lo + k])])

\* the characters of the B-side tokens of the insert and replace opcodes of
\* the word-level diff of (text1, text2)
DiffAddedChars(text1, text2) ==
    LET ops == GetOpcodes(Words(text1), Words(text2))
    IN  Sum([k \in 1..Len(ops) |->
                IF ops[k].tag \in {"insert", "replace"}
                THEN TokenChars(Words(text2), ops[k].j1, ops[k].j2) ELSE 0])

\* the characters of the A-side tokens of the delete and replace opcodes
DiffDeletedChars(text1, text2) ==
    LET ops == GetOpcodes(Words(text1), Words(text2))
    IN  Sum([k \in 1..Len(ops) |->
                IF ops[k].tag \in {"delete", "replace"}
                THEN TokenChars(Words(text1), ops[k].i1, ops[k].i2) ELSE 0])

\* C9: after a successful comparison, modified_blocks is the number of
\* modified blocks, modified_chars the sum of len(text2) over them,
\* added_chars the sum of len(text2) over the added blocks plus the
\* inserted and replaced B-side word characters of the modified blocks,
\* deleted_chars the sum of len(text1) over the deleted blocks plus the
\* deleted and replaced A-side word characters of the modified blocks.
C9_SummaryOfBlocks ==
    (pc = "done" /\ success) =>
        LET blocks == all_change_blocks
            over(status, f(_)) ==
                Sum([n \in 1..Len(blocks) |->
                        IF blocks[n].status = status THEN f(blocks[n]) ELSE 0])
            one(b) == 1
            len1(b) == Len(b.text1)
            len2(b) == Len(b.text2)
            diffadd(b) == DiffAddedChars(b.text1, b.text2)
            diffdel(b) == DiffDeletedChars(b.text1, b.text2)
        IN  /\ summary.modified_blocks = over("modified", one)
            /\ summary.modified_chars = over("modified", len2)
            /\ summary.added_chars = over("added", len2) + over("modified", diffadd)
            /\ summary.deleted_chars = over("deleted", len1) + over("modified", diffdel)

\* C9 witness: a successful comparison whose blocks are a deleted one, an
\* added one and a modified one with a replaced word
C9_Witness ==
    /\ pc = "done"
    /\ success
    /\ \E n \in 1..Len(all_change_blocks) :
          all_change_blocks[n] = [status |-> "modified", text1 |-> TA, text2 |-> TC]
    /\ \E n \in 1..Len(all_change_blocks) : all_change_blocks[n].status = "added"
    /\ \E n \in 1..Len(all_change_blocks) : all_change_blocks[n].status = "deleted"
    /\ \E n \in 1..Len(all_change_blocks) : all_change_blocks[n].status = "equal"
    /\ summary.deleted_chars > 1

(***************************************************************************)
(* Properties of the lexical line diff.                                    *)
(***************************************************************************)
\* the opcodes of the line diff of the two preprocessed line lists
LineOpcodes == GetOpcodes(text1_processed_lines[1], text2_processed_lines[1])

\* C10: after the line diff, lines_added is the total length of the B
\* spans of the insert opcodes, lines_deleted the total length of the A
\* spans of the delete opcodes, lines_modified the sum over the replace
\* opcodes of max(len(span_a), len(span_b)); equal opcodes count nothing.
C10_LineSummary ==
    (pc = "done" /\ diff_html # None) =>
        LET ops == LineOpcodes
            total(tag, f(_)) ==
                Sum([k \in 1..Len(ops) |-> IF ops[k].tag = tag THEN f(ops[k]) ELSE 0])
            lenA(op) == op.i2 - op.i1
            lenB(op) == op.j2 - op.j1
            larger(op) == IF lenA(op) > lenB(op) THEN lenA(op) ELSE lenB(op)
        IN  /\ summary.lines_added = total("insert", lenB)
            /\ summary.lines_deleted = total("delete", lenA)
            /\ summary.lines_modified = total("replace", larger)

\* C10 witness: a diff with an equal opcode, a replace opcode whose spans
\* differ in length, and an insert or delete opcode
C10_Witness ==
    /\ pc = "done"
    /\ diff_html # None
    /\ \E k \in 1..Len(LineOpcodes) : LineOpcodes[k].tag = "equal"
    /\ \E k \in 1..Len(LineOpcodes) :
          /\ LineOpcodes[k].tag = "replace"
          /\ LineOpcodes[k].i2 - LineOpcodes[k].i1 # LineOpcodes[k].j2 - LineOpcodes[k].j1
    /\ summary.lines_modified = 2
    /\ summary.lines_added + summary.lines_deleted > 0

(***************************************************************************)
(* Properties of PDFComparator.compare.                                    *)
(***************************************************************************)
\* the three counts of the lexical summary, added up
ChangedLines ==
    summary.lines_added + summary.lines_deleted + summary.lines_modified

\* _preprocess_text of a raw text under the comparator's options
Normalized(raw_text) ==
    PreprocessText(raw_text, ignore_case, ignore_punctuation, de_hyphenate)

\* C11: after a successful lexical compare, lines_added + lines_deleted +
\* lines_modified is 0 if and only if the normalized line sequences of the
\* two raw texts are equal.
C11_SummaryConsistency ==
    (pc = "done" /\ success) =>
        (ChangedLines = 0 <=> Normalized(text1_raw[1]) = Normalized(text2_raw[1]))

\* C11 witness: a successful compare of two texts whose lines differ only
\* in a replace opcode of equal spans
C11_Witness ==
    /\ pc = "done"
    /\ success
    /\ diff_html # None
    /\ summary = [lines_added |-> 0, lines_deleted |-> 0, lines_modified |-> 1]

(***************************************************************************)
(* Properties of the opcodes of the line diff.                             *)
(***************************************************************************)
RECURSIVE ConcatSpans(_, _, _)
\* the elements of s the spans of the opcodes cover, in opcode order; side
\* is "a" for the spans [i1, i2) and "b" for the spans [j1, j2)
ConcatSpans(ops, s, side) ==
    IF ops = <<>> THEN <<>>
    ELSE (IF side = "a" THEN Slice(s, Head(ops).i1, Head(ops).i2)
          ELSE Slice(s, Head(ops).j1, Head(ops).j2))
         \o ConcatSpans(Tail(ops), s, side)

\* C12: the opcodes of the line diff partition [0, len(a)) and [0, len(b)):
\* the spans start at 0, each starts where the one before ends, the last
\* ends at len(a) and len(b); the A spans in order make up a and the B
\* spans make up b; an equal opcode covers equal elements.
C12_OpcodesPartition ==
    (pc \in {"diff", "done"} /\ text1_processed_lines # None
                             /\ text2_processed_lines # None) =>
        LET a == text1_processed_lines[1]
            b == text2_processed_lines[1]
            ops == LineOpcodes
        IN  /\ ops # <<>>
            /\ ops[1].i1 = 0 /\ ops[1].j1 = 0
            /\ ops[Len(ops)].i2 = Len(a) /\ ops[Len(ops)].j2 = Len(b)
            /\ \A k \in 1..Len(ops) :
                  /\ ops[k].i1 <= ops[k].i2
                  /\ ops[k].j1 <= ops[k].j2
                  /\ k > 1 => (ops[k].i1 = ops[k - 1].i2 /\ ops[k].j1 = ops[k - 1].j2)
                  /\ ops[k].tag = "equal" =>
                        Slice(a, ops[k].i1, ops[k].i2) = Slice(b, ops[k].j1, ops[k].j2)
            /\ ConcatSpans(ops, a, "a") = a
            /\ ConcatSpans(ops, b, "b") = b

\* C12 witness: a diff whose opcodes are an equal one, a changed one and a
\* second equal one
C12_Witness ==
    /\ pc = "done"
    /\ diff_html # None
    /\ Len(LineOpcodes) = 3
    /\ LineOpcodes[1].tag = "equal"
    /\ LineOpcodes[2].tag = "replace"
    /\ LineOpcodes[3].tag = "equal"

(***************************************************************************)
(* Properties of the normalizer.                                           *)
(***************************************************************************)
\* C13: normalizing the newline-joined output of the normalizer with the
\* same options gives the same lines again.
C13_NormalizeIdempotent ==
    (pc = "done" /\ text1_processed_lines # None) =>
        Normalized(JoinSep(text1_processed_lines[1], <<"\n">>))
            = text1_processed_lines[1]

\* f maps the positions of out to positions of src, in increasing order
Increasing(f, n) == \A k \in 1..n : \A m \in 1..n : k < m => f[k] < f[m]

\* C14: every line the normalizer returns is non-empty, has no whitespace
\* at either end and no two whitespace characters in a row, no upper-case
\* letter under ignore_case and no punctuation under ignore_punctuation;
\* the lines are the processed source lines in their order, and the source
\* lines left out are those that became empty.
C14_NormalizedLines ==
    (pc = "done" /\ text1_processed_lines # None /\ text1_raw # None) =>
        LET out == text1_processed_lines[1]
            src == SplitLines(IF de_hyphenate THEN DeHyphenate(text1_raw[1])
                              ELSE text1_raw[1])
            line(m) == ApplyPreprocessingOptions(src[m], ignore_case,
                                                 ignore_punctuation)
        IN  /\ \A k \in 1..Len(out) :
                  /\ out[k] # <<>>
                  /\ ~IsSpace(out[k][1])
                  /\ ~IsSpace(out[k][Len(out[k])])
                  /\ \A n \in 1..(Len(out[k]) - 1) :
                        ~(IsSpace(out[k][n]) /\ IsSpace(out[k][n + 1]))
                  /\ ignore_case => \A n \in 1..Len(out[k]) : out[k][n] \notin {"A", "B"}
                  /\ ignore_punctuation =>
                        \A n \in 1..Len(out[k]) : out[k][n] \notin Punctuation
            /\ \E f \in [1..Len(out) -> 1..Len(src)] :
                  /\ Increasing(f, Len(out))
                  /\ \A k \in 1..Len(out) : out[k] = line(f[k])
                  /\ \A m \in 1..Len(src) :
                        (\A k \in 1..Len(out) : f[k] # m) => line(m) = <<>>

\* C14 witness: under ignore_case and ignore_punctuation the line that is
\* only a hyphen is dropped and the upper-case line is returned lowered
C14_Witness ==
    /\ pc = "done"
    /\ text1_processed_lines # None
    /\ text1_raw # None
    /\ ignore_case
    /\ ignore_punctuation
    /\ text1_raw[1] = <<" ", "-", "\n", "A">>
    /\ text1_processed_lines[1] = <<<<"a">>>>

(***************************************************************************)
(* Properties of the chunker.                                              *)
(***************************************************************************)
\* the whitespace-delimited words of the text the chunker was given
InputWords == SplitWhitespace(text1_raw[1])

\* the chunker has returned
Chunked == pc = "done" /\ text1_raw # None /\ max_chunk_tokens > 0

\* the chunk is an over-budget word of the text, cut to the budget
TruncatedWord(chunk) ==
    \E n \in 1..Len(InputWords) :
        /\ TokenCount(InputWords[n]) > max_chunk_tokens
        /\ chunk = Truncate(InputWords[n], max_chunk_tokens)

\* C15: every returned chunk has at most max(requested, 500) tokens, but
\* for a chunk that is one truncated over-budget word; and a text of more
\* tokens than the budget that has no paragraph, sentence or line boundary
\* is split into two chunks or more.
C15_ChunksWithinBudget ==
    Chunked =>
        /\ max_chunk_tokens >= 500
        /\ \A k \in 1..Len(chunks1) :
              TokenCount(chunks1[k]) <= max_chunk_tokens \/ TruncatedWord(chunks1[k])
        /\ (/\ TokenCount(text1_raw[1]) > max_chunk_tokens
            /\ ParagraphBreaks(text1_raw[1]) = {}
            /\ SentenceBreaks(text1_raw[1]) = {}
            /\ NewlineBreaks(text1_raw[1]) = {})
           => Len(chunks1) >= 2

\* chunk is text[o+1 .. o+len(chunk)] for some offset o
IsSubstring(chunk, text) ==
    \E o \in 0..(Len(text) - Len(chunk)) :
        SubSeq(text, o + 1, o + Len(chunk)) = chunk

\* C16: every returned chunk is a contiguous substring of the input text.
C16_ChunksAreSubstrings ==
    Chunked => \A k \in 1..Len(chunks1) : IsSubstring(chunks1[k], text1_raw[1])

RECURSIVE WordsOfChunks(_)
\* the words of the chunks, read chunk after chunk
WordsOfChunks(chunks) ==
    IF chunks = <<>> THEN <<>>
    ELSE SplitWhitespace(Head(chunks)) \o WordsOfChunks(Tail(chunks))

\* C17: no returned chunk is empty or only whitespace, and when no word of
\* the text is over the budget, the words of the chunks read in order are
\* the words of the text: none lost, none twice, none out of place.
C17_ChunksKeepWords ==
    Chunked =>
        /\ \A k \in 1..Len(chunks1) : ~OnlySpace(chunks1[k])
        /\ (\A n \in 1..Len(InputWords) :
                TokenCount(InputWords[n]) <= max_chunk_tokens)
           => WordsOfChunks(chunks1) = InputWords

\* C17 witness: a paragraph that fits, then one over the budget that is
\* split between its words into two chunks
C17_Witness ==
    /\ Chunked
    /\ Len(InputWords) = 3
    /\ \A n \in 1..Len(InputWords) : TokenCount(InputWords[n]) <= max_chunk_tokens
    /\ Cardinality(ParagraphBreaks(text1_raw[1])) = 1
    /\ Len(chunks1) = 3
    /\ chunks1[1] = InputWords[1]
    /\ TokenCount(chunks1[2]) + TokenCount(chunks1[3]) > max_chunk_tokens

(***************************************************************************)
(* Properties of both comparators.                                         *)
(***************************************************************************)
\* the state is one of a PDFComparator
IsLexical == DOMAIN summary = DOMAIN zero_summary

\* nothing of the diff has been computed
NoDiffWork ==
    /\ text1_processed_lines = None
    /\ text2_processed_lines = None
    /\ diff_html = None
    /\ chunks1 = <<>>
    /\ chunks2 = <<>>
    /\ calls = <<>>
    /\ api_call_counter = 0
    /\ all_change_blocks = <<>>
    /\ rendered_html = None
    /\ summary \in {zero_summary, default_summary}

\* C18: when the extractor reports an error for a document, compare stops
\* before any diff work: nothing is normalized, chunked, sent to the oracle
\* or rendered, an error of document 1 keeps document 2 from being
\* extracted, success is false and error_message holds the extractor's
\* error text.
C18_ExtractionErrorStops ==
    LET error1 == file1.error # None
        error2 == file1.error = None /\ file2.error # None
    IN  (error1 \/ error2) =>
            /\ NoDiffWork
            /\ ~success
            /\ pc \notin {"loop", "lex_compare", "diff"}
            /\ error1 => (text2_raw = None /\ pc \notin {"extract2", "lex_extract2"})
            /\ pc = "done" =>
                  /\ returned = Some(FALSE)
                  /\ error_message # None
                  /\ error1 => error_message[1] = "Error in Document 1: " \o file1.error[1]
                  /\ error2 => error_message[1] = "Error in Document 2: " \o file2.error[1]

\* C18 witness: a lexical compare that ended on the error of document 1
\* while document 2 was a readable text
C18_Witness ==
    /\ pc = "done"
    /\ IsLexical
    /\ file1.error # None
    /\ file2.error = None
    /\ file2.text # Some(<<>>)
    /\ error_message # None
    /\ text2_raw = None

\* both documents were extracted and their raw texts are equal
EqualRawTexts ==
    /\ file1.error = None
    /\ file2.error = None
    /\ file1.text = file2.text

\* C19: when the two raw texts are equal the comparison succeeds at once:
\* the lexical compare reports success, is_identical, zero counts and no
\* diff markup under every combination of the options; the semantic
\* compare reports success, is_identical_raw, no block, a zero summary and
\* no oracle call.
C19_EqualTextsSucceed ==
    (pc = "done" /\ EqualRawTexts) =>
        /\ success
        /\ returned = Some(TRUE)
        /\ error_message = None
        /\ IsLexical =>
              /\ is_identical
              /\ summary = zero_summary
              /\ diff_html = None
        /\ ~IsLexical =>
              /\ is_identical_raw
              /\ all_change_blocks = <<>>
              /\ summary = default_summary
              /\ api_call_counter = 0
              /\ calls = <<>>

\* C19 witness: a semantic compare of two equal texts of three chunks
C19_Witness ==
    /\ pc = "done"
    /\ EqualRawTexts
    /\ ~IsLexical
    /\ Len(file1.chunks) = 3
    /\ is_identical_raw
    /\ success

(***************************************************************************)
(* Properties of the word-level diff of a modified line.                   *)
(***************************************************************************)
\* the number of entries of html_out one opcode of the line diff appends
EntriesOf(op) ==
    IF op.tag = "insert" THEN op.j2 - op.j1
    ELSE IF op.tag = "replace" THEN Max(op.i2 - op.i1, op.j2 - op.j1)
    ELSE op.i2 - op.i1

\* a segment of the word-level diff: kind is "unstyled", "removed" or
\* "added", text is the text it shows
Segment(kind, text) == [kind |-> kind, text |-> text]

\* the segments an opcode of the word diff stands for
SegmentsOf(op, words1, words2) ==
    LET sideA == Join(Slice(words1, op.i1, op.i2))
        sideB == Join(Slice(words2, op.j1, op.j2))
    IN  IF op.tag = "equal" THEN <<Segment("unstyled", sideA)>>
        ELSE IF op.tag = "delete" THEN <<Segment("removed", sideA)>>
        ELSE IF op.tag = "insert" THEN <<Segment("added", sideB)>>
        ELSE (IF OnlySpace(sideA) THEN <<>> ELSE <<Segment("removed", sideA)>>)
             \o (IF OnlySpace(sideB) THEN <<>> ELSE <<Segment("added", sideB)>>)

RECURSIVE SegmentsOfAll(_, _, _)
SegmentsOfAll(ops, words1, words2) ==
    IF ops = <<>> THEN <<>>
    ELSE SegmentsOf(Head(ops), words1, words2)
         \o SegmentsOfAll(Tail(ops), words1, words2)

\* the segment a piece of markup shows
ShownAs(piece) ==
    CASE piece.cls = "" -> "unstyled"
      [] piece.cls = "word-deleted" -> "removed"
      [] piece.cls = "word-added" -> "added"
      [] OTHER -> "other"

\* C20: in the word-level diff of a modified line the opcodes give the
\* segments in opcode order: equal the text unstyled, delete the A-side
\* text as removed, insert the B-side text as added, replace the A-side
\* text as removed (if not blank) and right after it the B-side text as
\* added (if not blank).
C20_WordDiffSegments ==
    (pc = "done" /\ diff_html # None) =>
        LET a == text1_processed_lines[1]
            b == text2_processed_lines[1]
            ops == LineOpcodes
            offset(k) == Sum([n \in 1..(k - 1) |-> EntriesOf(ops[n])])
        IN  \A k \in 1..Len(ops) :
                ops[k].tag = "replace" =>
                    \A m \in 0..(EntriesOf(ops[k]) - 1) :
                        (m < ops[k].i2 - ops[k].i1 /\ m < ops[k].j2 - ops[k].j1) =>
                            LET entry == diff_html[1][offset(k) + m + 1]
                                words1 == Words(a[ops[k].i1 + m + 1])
                                words2 == Words(b[ops[k].j1 + m + 1])
                                segs == SegmentsOfAll(GetOpcodes(words1, words2),
                                                      words1, words2)
                            IN  /\ entry.cls = "diff-modified"
                                /\ Len(entry.content) = Len(segs)
                                /\ \A n \in 1..Len(segs) :
                                      /\ ShownAs(entry.content[n]) = segs[n].kind
                                      /\ entry.content[n].body = HtmlEscape(segs[n].text)

\* C20 witness: two modified lines, one whose word diff is a replace and
\* one whose word diff is an equal segment followed by an added one
C20_Witness ==
    /\ pc = "done"
    /\ diff_html # None
    /\ Len(diff_html[1]) = 2
    /\ diff_html[1][1].cls = "diff-modified"
    /\ diff_html[1][1].content =
          <<Span("word-deleted", <<"a">>), Span("word-added", <<"b">>)>>
    /\ diff_html[1][2].cls = "diff-modified"
    /\ diff_html[1][2].content = <<Bare(<<"a">>), Span("word-added", <<" ", "b">>)>>

(***************************************************************************)
(* Properties of the two renderers.                                        *)
(***************************************************************************)
\* the pieces of the rendered semantic diff
Pieces == rendered_html[1].pieces

\* the escaped text of a span of word tokens, with its line-break tags
Escaped(words, lo, hi) == BrNewlines(HtmlEscape(Join(Slice(words, lo, hi))))

\* C21 (as claimed): for every Replace opcode of the word diff of a
\* modified block whose A-side text is not blank, the rendered output holds
\* the A-side text as a deleted segment, followed by the B-side text as an
\* added segment when the B-side text is not blank.
C21_ReplaceAsRemovedAdded ==
    (pc = "done" /\ rendered_html # None) =>
        \A n \in 1..Len(all_change_blocks) :
            LET block == all_change_blocks[n]
                words1 == Words(block.text1)
                words2 == Words(block.text2)
                ops == GetOpcodes(words1, words2)
            IN  block.status = "modified" =>
                    \A k \in 1..Len(ops) :
                        LET sideA == Join(Slice(words1, ops[k].i1, ops[k].i2))
                            sideB == Join(Slice(words2, ops[k].j1, ops[k].j2))
                        IN  (ops[k].tag = "replace" /\ ~OnlySpace(sideA)) =>
                                \E p \in 1..Len(Pieces) :
                                    /\ Pieces[p] = Span("status-deleted",
                                           Escaped(words1, ops[k].i1, ops[k].i2))
                                    /\ ~OnlySpace(sideB) =>
                                          /\ p < Len(Pieces)
                                          /\ Pieces[p + 1] = Span("status-added",
                                                 Escaped(words2, ops[k].j1, ops[k].j2))

\* C21 (amended): for every Replace opcode of the word diff of a modified
\* block whose A-side text is not blank, the rendered output holds at the
\* opcode's place one piece: the B-side text as a status-modified segment
\* when its markup is not blank and not a lone line break (the A-side text
\* is then not rendered), the B-side line break unstyled when it is a lone
\* line break, and the A-side text as a status-deleted segment when the
\* B-side text is blank.
C21_ReplaceRendering ==
    (pc = "done" /\ rendered_html # None) =>
        \A n \in 1..Len(all_change_blocks) :
            LET block == all_change_blocks[n]
                words1 == Words(block.text1)
                words2 == Words(block.text2)
                ops == GetOpcodes(words1, words2)
                base == Len(RenderBlocks(SubSeq(all_change_blocks, 1, n - 1)))
                place(k) == base + Len(RenderWordOpcodes(SubSeq(ops, 1, k - 1),
                                                         words1, words2))
            IN  block.status = "modified" =>
                    \A k \in 1..Len(ops) :
                        LET sideA == Join(Slice(words1, ops[k].i1, ops[k].i2))
                            escaped1 == Escaped(words1, ops[k].i1, ops[k].i2)
                            escaped2 == Escaped(words2, ops[k].j1, ops[k].j2)
                        IN  (ops[k].tag = "replace" /\ ~OnlySpace(sideA)) =>
                                /\ place(k) < Len(Pieces)
                                /\ Pieces[place(k) + 1] =
                                      (IF Strip(escaped2) = <<>>
                                       THEN Span("status-deleted", escaped1)
                                       ELSE IF escaped2 = <<"<br>", "\n">>
                                       THEN Bare(escaped2)
                                       ELSE Span("status-modified", escaped2))
                                /\ Len(RenderWordOpcodes(<<ops[k]>>, words1, words2)) = 1

\* C21 witness: the block modified "a b" -> "a c" was rendered as the equal
\* words followed by the new word alone, as a modified segment
C21_Witness ==
    /\ pc = "done"
    /\ rendered_html # None
    /\ all_change_blocks = <<[status |-> "modified", text1 |-> TA, text2 |-> TC]>>
    /\ Pieces = <<Span("status-equal", <<"a", " ">>), Span("status-modified", <<"c">>)>>

\* a body that shows nothing but whitespace: spaces, line breaks and
\* line-break tags
WhiteBody(body) ==
    /\ body # <<>>
    /\ \A n \in 1..Len(body) : IsSpace(body[n]) \/ body[n] = "<br>"

\* C22 (as claimed): neither word-level renderer wraps a whitespace-only
\* opcode body in a styled segment: no added, deleted or modified segment
\* of a rendered modified block, and no added or deleted segment of a
\* rendered modified line, has a body of whitespace only.
C22_NoStyledWhitespace ==
    /\ (pc = "done" /\ rendered_html # None) =>
          \A n \in 1..Len(all_change_blocks) :
              LET base == Len(RenderBlocks(SubSeq(all_change_blocks, 1, n - 1)))
                  count == Len(RenderBlocks(<<all_change_blocks[n]>>))
              IN  all_change_blocks[n].status = "modified" =>
                      \A p \in (base + 1)..(base + count) :
                          Pieces[p].cls \in {"status-added", "status-deleted",
                                             "status-modified"}
                              => ~WhiteBody(Pieces[p].body)
    /\ (pc = "done" /\ diff_html # None) =>
          \A n \in 1..Len(diff_html[1]) :
              diff_html[1][n].cls = "diff-modified" =>
                  \A p \in 1..Len(diff_html[1][n].content) :
                      diff_html[1][n].content[p].cls \in {"word-added", "word-deleted"}
                          => ~WhiteBody(diff_html[1][n].content[p].body)

\* the character references html.escape writes, after their "&"
Entities ==
    {<<"a", "m", "p", ";">>, <<"l", "t", ";">>, <<"g", "t", ";">>,
     <<"q", "u", "o", "t", ";">>, <<"#", "x", "2", "7", ";">>}

\* markup text that holds no markup-sensitive character of its own: no "<",
\* ">" or quote, and "&" only as the start of a character reference (the
\* element "<br>" is the renderer's tag, not a character)
Safe(body) ==
    \A n \in 1..Len(body) :
        /\ body[n] \notin {"<", ">", "\"", "'"}
        /\ body[n] = "&" => \E e \in Entities : StartsWithAt(body, n, e)

\* C23: in both renderers no markup-sensitive character of the document or
\* oracle text reaches the output unescaped: the body of every rendered
\* piece, and the href, title and text of every link, hold "<", ">", "&"
\* and quotes only as character references.
C23_EscapedOutput ==
    /\ (pc = "done" /\ rendered_html # None) =>
          \A p \in 1..Len(Pieces) : Safe(Pieces[p].body)
    /\ (pc = "done" /\ diff_html # None) =>
          \A n \in 1..Len(diff_html[1]) :
              \A p \in 1..Len(diff_html[1][n].content) :
                  LET piece == diff_html[1][n].content[p]
                  IN  /\ Safe(piece.body)
                      /\ piece.cls = "a" => (Safe(piece.href) /\ Safe(piece.title))

\* C23 witness: a rendered diff with a link whose url held a quote, and
\* with a modified line whose words held "&" and "<"
C23_Witness ==
    /\ pc = "done"
    /\ diff_html # None
    /\ text1_processed_lines = Some(<<<<"&">>>>)
    /\ text2_processed_lines =
          Some(<<<<"a", " ", "<">>, <<"w", "w", "w", ".", "a", "\"">>>>)
    /\ diff_html[1][1].cls = "diff-modified"
    /\ diff_html[1][1].content =
          <<Span("word-deleted", <<"&", "a", "m", "p", ";">>),
            Span("word-added", <<"a", " ", "&", "l", "t", ";">>)>>
    /\ diff_html[1][2].cls = "diff-added"
    /\ \E p \in 1..Len(diff_html[1][2].content) :
          /\ diff_html[1][2].content[p].cls = "a"
          /\ \E n \in 1..Len(diff_html[1][2].content[p].href) :
                diff_html[1][2].content[p].href[n] = "&"

(***************************************************************************)
(* Properties of compare() under exceptions and repeated calls.            *)
(***************************************************************************)
\* C24: no state crosses compare() invocations: whatever the calls before
\* left in the object, a call that has done its reset is in the state of a
\* fresh comparator that has done its reset (every result field and every
\* local at its initial value), so what the call computes from there is
\* what a fresh comparator computes for the same files and oracle answers.
C24_ResetIsComplete ==
    /\ pc = "extract1" =>
          /\ success = FALSE
          /\ error_message = None
          /\ is_identical_raw = FALSE
          /\ text1_raw = None
          /\ text2_raw = None
          /\ all_change_blocks = <<>>
          /\ rendered_html = None
          /\ summary = default_summary
          /\ api_call_counter = 0
          /\ debug_logs = <<>>
          /\ chunks1 = <<>> /\ chunks2 = <<>> /\ i = 0
          /\ returned = None
          /\ origin = <<>> /\ calls = <<>> /\ answer = None /\ failed = None
    /\ pc = "lex_extract1" =>
          /\ success = FALSE
          /\ error_message = None
          /\ is_identical = FALSE
          /\ is_identical_raw = FALSE
          /\ text1_raw = None
          /\ text2_raw = None
          /\ text1_processed_lines = None
          /\ text2_processed_lines = None
          /\ diff_html = None
          /\ summary = zero_summary
          /\ returned = None

\* C24 witness: the comparator between two calls, holding the partial block
\* list, the log and the error of a call that failed on its second pair
C24_Witness ==
    /\ pc = "idle"
    /\ ~success
    /\ error_message # None
    /\ all_change_blocks # <<>>
    /\ api_call_counter = 2
    /\ debug_logs # <<>>

\* C26: success is a boolean and every failure carries a message: when
\* compare() has ended, success holds exactly when error_message is unset,
\* on every path (extraction error, missing text, chunking error, oracle
\* error, finalization failure, unexpected exception), in both
\* comparators; and the rendered markup is never set while success is
\* false.
C26_FailureCarriesMessage ==
    /\ success \in BOOLEAN
    /\ pc = "done" => (success <=> error_message = None)
    /\ ~success => (rendered_html = None /\ diff_html = None)

\* C26 witness: the finalization failed after the summary of a non-empty
\* block list was stored
C26_Witness ==
    /\ pc = "done"
    /\ ~success
    /\ error_message = Some("Error during result finalization")
    /\ all_change_blocks # <<>>
    /\ summary # default_summary
    /\ rendered_html = None

\* C30 (as claimed): in both comparators the boolean compare() returns is
\* the value of success at the moment of return, on every path.
C30_ReturnsSuccess ==
    pc = "done" => returned = Some(success)

(***************************************************************************)
(* The lexical comparison of "Hello world" with "Hello world extra".       *)
(***************************************************************************)
\* the lexical compare of the two documents has ended
HelloCompared ==
    /\ pc = "done"
    /\ IsLexical
    /\ file1.text = Some(HelloWorld)
    /\ file2.text = Some(HelloWorldExtra)

\* the opcodes of the word-level diff of the first lines
FirstLineWordOpcodes ==
    GetOpcodes(Words(text1_processed_lines[1][1]), Words(text2_processed_lines[1][1]))

\* C25 (as claimed): comparing "Hello world" with "Hello world extra"
\* yields one Insert opcode, for "extra", and a summary with
\* lines_added = 1.
C25_OneInsertedLine ==
    HelloCompared =>
        /\ summary.lines_added = 1
        /\ \E k \in 1..Len(FirstLineWordOpcodes) :
              LET op == FirstLineWordOpcodes[k]
              IN  /\ op.tag = "insert"
                  /\ Join(Slice(Words(text2_processed_lines[1][1]), op.j1, op.j2))
                        = <<"e", "x", "t", "r", "a">>

\* C25 (amended): comparing "Hello world" with "Hello world extra" yields
\* one line-level Replace opcode pairing the two lines, and the summary
\* lines_modified = 1, lines_added = 0, lines_deleted = 0; the word-level
\* diff of the pair is an Equal opcode for "Hello world" followed by one
\* Insert opcode for " extra" (the separating space and the word), and the
\* line is rendered as one modified line: "Hello world" unstyled, then
\* " extra" as an added segment (in lower case under ignore_case).
C25_OneModifiedLine ==
    HelloCompared =>
        LET line1 == text1_processed_lines[1][1]
            line2 == text2_processed_lines[1][1]
            hello == IF ignore_case THEN [n \in 1..11 |-> Lower(HelloWorld[n])]
                     ELSE HelloWorld
        IN  /\ success
            /\ text1_processed_lines = Some(<<hello>>)
            /\ text2_processed_lines = Some(<<hello \o <<" ", "e", "x", "t", "r", "a">>>>)
            /\ LineOpcodes = <<[tag |-> "replace", i1 |-> 0, i2 |-> 1, j1 |-> 0, j2 |-> 1]>>
            /\ summary = [lines_added |-> 0, lines_deleted |-> 0, lines_modified |-> 1]
            /\ FirstLineWordOpcodes =
                  <<[tag |-> "equal", i1 |-> 0, i2 |-> 3, j1 |-> 0, j2 |-> 3],
                    [tag |-> "insert", i1 |-> 3, i2 |-> 3, j1 |-> 3, j2 |-> 5]>>
            /\ diff_html = Some(<<DiffLine("diff-modified", "*",
                  <<Bare(hello), Span("word-added", <<" ", "e", "x", "t", "r", "a">>)>>)>>)

\* C25 witness: the two documents were compared with the default options
C25_Witness ==
    /\ HelloCompared
    /\ ~ignore_case /\ ~ignore_punctuation /\ ~de_hyphenate
    /\ summary.lines_modified = 1
    /\ diff_html # None

(***************************************************************************)
(* Properties of the de-hyphenation.                                       *)
(***************************************************************************)
\* position p of the text holds a hyphen that is followed by optional
\* whitespace and a newline
HyphenBreak(text, p) ==
    /\ text[p] = "-"
    /\ \E q \in (p + 1)..Len(text) :
          /\ text[q] = "\n"
          /\ \A k \in (p + 1)..(q - 1) : IsSpace(text[k])

\* the positions of such hyphens and of the whitespace that follows them
BreakPositions(text) ==
    {k \in 1..Len(text) :
        \E p \in 1..k :
            /\ HyphenBreak(text, p)
            /\ \A n \in (p + 1)..k : IsSpace(text[n])}

\* the text without the characters at the positions of a set
RECURSIVE Without(_, _, _)
Without(text, positions, k) ==
    IF k > Len(text) THEN <<>>
    ELSE (IF k \in positions THEN <<>> ELSE <<text[k]>>)
         \o Without(text, positions, k + 1)

\* a letter of the raw texts
IsLetter(c) == c \in {"a", "A"}

\* a word broken at a line end: a letter, a hyphen, whitespace with a
\* newline in it, and a letter
BrokenWord(text) ==
    /\ Len(text) >= 4
    /\ IsLetter(text[1])
    /\ HyphenBreak(text, 2)
    /\ \A k \in 3..(Len(text) - 1) : IsSpace(text[k])
    /\ IsLetter(text[Len(text)])

\* C27: with de_hyphenate set, every hyphen followed by optional whitespace
\* and a newline is removed, with the whitespace around the newline, before
\* the text is split into lines, so that a word broken at a line end is
\* one word on one normalized line; with de_hyphenate unset the text is
\* split as it is, and the two parts of the word stay on two lines, the
\* first one with its hyphen unless ignore_punctuation strips it.
C27_DeHyphenation ==
    (pc = "done" /\ text1_processed_lines # None /\ text1_raw # None) =>
        LET raw == text1_raw[1]
            out == text1_processed_lines[1]
            joined == Without(raw, BreakPositions(raw), 1)
            lc(c) == IF ignore_case THEN Lower(c) ELSE c
        IN  /\ de_hyphenate =>
                  /\ \A p \in 1..Len(joined) : ~HyphenBreak(joined, p)
                  /\ out = ProcessLines(SplitLines(joined), ignore_case,
                                        ignore_punctuation)
                  /\ BrokenWord(raw) => out = <<<<lc(raw[1]), lc(raw[Len(raw)])>>>>
            /\ ~de_hyphenate =>
                  /\ out = ProcessLines(SplitLines(raw), ignore_case,
                                        ignore_punctuation)
                  /\ BrokenWord(raw) =>
                        /\ out[1] = (IF ignore_punctuation THEN <<lc(raw[1])>>
                                     ELSE <<lc(raw[1]), "-">>)
                        /\ out[2] = <<lc(raw[Len(raw)])>>
                        /\ Len(out) = 2

\* C27 witness: the word broken as "a-" / "A" was joined to "aA" on one line
C27_Witness ==
    /\ pc = "done"
    /\ de_hyphenate
    /\ ~ignore_case
    /\ text1_raw = Some(<<"a", "-", "\n", "A">>)
    /\ text1_processed_lines = Some(<<<<"a", "A">>>>)

(***************************************************************************)
(* Properties of the rendered lines of the lexical diff.                   *)
(***************************************************************************)
\* C28: a Replace opcode of the line diff pairs the lines by position and
\* renders max(len_a, len_b) lines: index m as a modified line when both
\* sides have a line, as an added line (line m of the B side) when only B
\* has one, as a deleted line (line m of the A side) when only A has one;
\* and the number of rendered lines is the number of Equal lines plus
\* lines_added + lines_deleted + lines_modified.
C28_ReplaceRendersMaxLines ==
    (pc = "done" /\ diff_html # None) =>
        LET a == text1_processed_lines[1]
            b == text2_processed_lines[1]
            ops == LineOpcodes
            rendered == diff_html[1]
            offset(k) == Sum([n \in 1..(k - 1) |-> EntriesOf(ops[n])])
            equal_lines == Sum([n \in 1..Len(ops) |->
                                   IF ops[n].tag = "equal"
                                   THEN ops[n].i2 - ops[n].i1 ELSE 0])
        IN  /\ Len(rendered) = equal_lines + summary.lines_added
                               + summary.lines_deleted + summary.lines_modified
            /\ \A k \in 1..Len(ops) :
                  ops[k].tag = "replace" =>
                      LET len_a == ops[k].i2 - ops[k].i1
                          len_b == ops[k].j2 - ops[k].j1
                      IN  /\ offset(k) + Max(len_a, len_b) <= Len(rendered)
                          /\ \A m \in 0..(Max(len_a, len_b) - 1) :
                                LET entry == rendered[offset(k) + m + 1]
                                IN  IF m < len_a /\ m < len_b
                                    THEN /\ entry.cls = "diff-modified"
                                         /\ entry.content =
                                               GenerateWordDiffHtml(a[ops[k].i1 + m + 1],
                                                                    b[ops[k].j1 + m + 1])
                                    ELSE IF m < len_b
                                    THEN entry = WholeLine("diff-added", "+",
                                                           b[ops[k].j1 + m + 1])
                                    ELSE entry = WholeLine("diff-deleted", "-",
                                                           a[ops[k].i1 + m + 1])
                          /\ k < Len(ops) =>
                                rendered[offset(k) + Max(len_a, len_b) + 1].cls
                                    = "diff-equal"

\* C28 witness: a Replace opcode of one line against two was rendered as a
\* modified line followed by an added line, after an equal line
C28_Witness ==
    /\ pc = "done"
    /\ diff_html # None
    /\ text1_processed_lines = Some(<<<<"a", " ", "b">>, <<"a">>>>)
    /\ text2_processed_lines = Some(<<<<"a", " ", "b">>, <<"b">>, <<"b">>>>)
    /\ Len(diff_html[1]) = 3
    /\ diff_html[1][1].cls = "diff-equal"
    /\ diff_html[1][2].cls = "diff-modified"
    /\ diff_html[1][3].cls = "diff-added"
    /\ summary = [lines_added |-> 0, lines_deleted |-> 0, lines_modified |-> 2]

\* the line holds no match of url_pattern
NoUrl(line) == \A p \in 0..Len(line) : UrlMatchEnd(line, p) = -1

\* C29 (as claimed): every character is escaped exactly once: a line with
\* no URL that the lexical engine renders as unchanged, added or deleted
\* shows, inside its span, the single HTML-escaping of the normalized line
\* ("&" as "&amp;", never as "&amp;amp;").
C29_EscapedOnce ==
    (pc = "done" /\ diff_html # None) =>
        LET a == text1_processed_lines[1]
            b == text2_processed_lines[1]
            ops == LineOpcodes
            offset(k) == Sum([n \in 1..(k - 1) |-> EntriesOf(ops[n])])
        IN  \A k \in 1..Len(ops) :
                ops[k].tag \in {"equal", "insert", "delete"} =>
                    \A m \in 0..(EntriesOf(ops[k]) - 1) :
                        LET line == IF ops[k].tag = "insert"
                                    THEN b[ops[k].j1 + m + 1]
                                    ELSE a[ops[k].i1 + m + 1]
                            entry == diff_html[1][offset(k) + m + 1]
                        IN  NoUrl(line) =>
                                Join([p \in 1..Len(entry.content) |->
                                         entry.content[p].body])
                                    = HtmlEscape(line)

====
